---- MODULE Spec2Model ----
(***************************************************************************)
(* Client resource layer of the serverless storage engine:                 *)
(*   - ConnectionPool            (src/src/connection_pool.cc)              *)
(*   - ha_serverless page cache  (src/src/safekeeper_client.cc, 691-789)   *)
(*   - SafekeeperClient async append pipeline (same file, 164-236)         *)
(*   - ha_serverless WAL position tracking (same file, 468-513, 663-669)   *)
(***************************************************************************)
EXTENDS Integers, Sequences, FiniteSets, TLC

(***************************************************************************)
(* Bounds of the model.  The pool limits are constructor arguments         *)
(* (connection_pool.cc 11-16); the model runs them at small values.        *)
(***************************************************************************)
MinPageserver == 1
MaxPageserver == 2
MinSafekeeper == 1
MaxSafekeeper == 2
\* connection objects the allocator can hand out per kind
MaxIds == 3
\* cap of the request counter (an unbounded uint64 in the source)
MaxRequests == 2
\* threads calling into the pool
NumCallers == 2
\* calls of warm_connections (initialize's included)
MaxWarm == 2
\* ha_serverless::MAX_CACHED_PAGES (1024 in ha_serverless.h), run at a small value
MAX_CACHED_PAGES == 2
\* page numbers a read can ask for
NumPages == 3
\* cap of perf_stats.network_calls for operations that are about to start
MaxNetworkCalls == 3
\* cap of the clock
MaxTime == 1
\* cap of a handler's LSN counter
MaxLsn == 3
\* cap of the requests ever queued on the async pipeline
MaxSubmitted == 3
\* min = max of the pool that is run at capacity
FullSize == 2
\* cap of the request counter in the runs of the pool at capacity
MaxHoldRequests == 4
\* MARIADB_PAGE_SIZE (16384 in safekeeper_client.cc 313), run at a small value
MARIADB_PAGE_SIZE == 2
\* the data bytes the 4096-byte request_buffer of append_wal_record has room for
\* besides the JSON frame: fewer than a page, as in the source
RequestRoom == 2

Kinds == {"ps", "sk"}
Callers == 1..NumCallers
\* every thread there is: the callers, and one more for the races of a full pool
Threads == 1..(NumCallers + 1)
NULL == 0
ConnIds == 1..MaxIds
\* a pointer the pool never created
Foreign == MaxIds + 1
\* handler objects: two, so that two handles can be open on one table
Handles == {1, 2}
\* the server threads that run handler operations
Sessions == {1, 2}
\* table names, as the character codes of "a" and "b"
TableNames == {<<97>>, <<98>>}

\* the limits serverless_init_func constructs the pool with
DefaultLimits ==
    [k \in Kinds |-> IF k = "ps" THEN [min |-> MinPageserver, max |-> MaxPageserver]
                     ELSE [min |-> MinSafekeeper, max |-> MaxSafekeeper]]

VARIABLES
    focus,      \* the kind a run exercises (the two kinds share no state)
    limits,     \* per kind: min_*_connections and max_*_connections
    removed,    \* per kind: the connections the health loop erased as unhealthy
    plugin,     \* "none" | "initialized" | "ready": progress of serverless_init_func;
                \* then "joining" | "draining" | "stopped" | "crashed": progress of shutdown
    pool,       \* per kind: available queue, managed vector, counters
    leased,     \* per kind, per connection: number of callers currently holding it
    pc,         \* per caller: "idle" | "waiting" (inside get_*_connection)
    want,       \* per caller: the kind it is waiting for
    woken,      \* per kind: waiting callers that a notify_one has picked
    hcpc,       \* health thread: "off" | "sleep" | "scale_ps" | "grow_ps" | "scale_sk" | "grow_sk"
    rateLow,    \* per kind: hit rate read by scale_pool_if_needed was below 0.8
    warms,      \* calls of warm_connections so far
    last,       \* the last operation completed and its outcome
    task,       \* per caller: the handler operation it is inside of
    got,        \* per caller: the pooled client its handler operation holds
    \* ha_serverless, per handler object
    now,                \* time(nullptr)
    cache_mutex,        \* the caller holding the handler's cache_mutex, 0 when free
    hstate,             \* "new" | "open" | "closed" | "destroyed"
    current_timeline,
    current_lsn,
    page_cache,         \* page key -> CachedPage
    lru_list,
    network_calls,      \* perf_stats.network_calls
    evicted,            \* the last eviction: the victim's last_access, dirty flag and data,
                        \* the oldest last_access then cached, the appends sent for it
    unflushed,          \* dirty pages with no write-back append sent since they were marked
    lost,               \* dirty pages discarded while unflushed
    written,            \* page key -> the bytes of its last successful write-back, until evicted
    \* the SafekeeperClient behind global_safekeeper_client
    connected,
    append_queue,
    shutdown_requested,
    wpc,                \* worker thread: "wait" | "process" | "exited"
    wreq,               \* the request the worker has popped
    submitted,          \* every request append_wal_record_async queued, in order
    issued,             \* every request the worker handed to append_wal_record, in order
    \* the Log service
    wire                \* append requests received, in order of arrival

poolVars == <<focus, limits, removed, plugin, pool, leased, woken, hcpc, rateLow, warms>>
threadVars == <<pc, want, task, got>>
cacheVars == <<now, cache_mutex, hstate, current_timeline, current_lsn, page_cache, lru_list,
               network_calls, evicted, unflushed, lost, written>>
pipeVars == <<connected, append_queue, shutdown_requested, wpc, wreq, submitted, issued>>
vars == <<poolVars, threadVars, cacheVars, pipeVars, wire, last>>

min_connections(k) == limits[k].min
max_connections(k) == limits[k].max

(***************************************************************************)
(* Sequence helpers                                                        *)
(***************************************************************************)
Range(s) == {s[i] : i \in 1..Len(s)}
Count(s, x) == Cardinality({i \in 1..Len(s) : s[i] = x})
\* std::find_if: index of the first element equal to x, 0 when there is none
FindFirst(s, x) ==
    IF \E i \in 1..Len(s) : s[i] = x
    THEN CHOOSE i \in 1..Len(s) : s[i] = x /\ \A j \in 1..(i - 1) : s[j] # x
    ELSE 0
\* vector::erase(it)
EraseAt(s, i) == SubSeq(s, 1, i - 1) \o SubSeq(s, i + 1, Len(s))
\* ids handed out by n successful allocations after c earlier ones
FreshIds(c, n) == [i \in 1..n |-> c + i]

(***************************************************************************)
(* ConnectionPool                                                          *)
(***************************************************************************)
EmptyPool ==
    [available |-> <<>>, all_connections |-> <<>>,
     requests |-> 0, cache_hits |-> 0, created |-> 0]

(***************************************************************************)
(* Types of serverless_types.h and ha_serverless.h                         *)
(***************************************************************************)
\* hash_string (djb2): hash = ((hash << 5) + hash) + c over the characters; the
\* uint64 does not wrap for the names used here
RECURSIVE hash_from(_, _)
hash_from(hash, str) ==
    IF str = <<>> THEN hash
    ELSE hash_from((hash * 32 + hash) + Head(str), Tail(str))

hash_string(str) == hash_from(5381, str)

\* unsigned integers as their 16-bit limbs, most significant first: a uint64_t
\* is four limbs, a uint32_t two
LimbBase == 2^16
Limbs == 0..(LimbBase - 1)
\* the uint64_t and the uint32_t of a number below 2^31
U64(n) == <<0, 0, n \div LimbBase, n % LimbBase>>
U32(n) == <<n \div LimbBase, n % LimbBase>>

\* x | y on two limbs, bit by bit
RECURSIVE BitOr(_, _)
BitOr(x, y) ==
    IF x = 0 THEN y
    ELSE IF y = 0 THEN x
    ELSE (IF x % 2 = 1 \/ y % 2 = 1 THEN 1 ELSE 0) + 2 * BitOr(x \div 2, y \div 2)

\* a | b on uint64_t
Or64(a, b) == [i \in 1..4 |-> BitOr(a[i], b[i])]
\* the integral promotion of a uint32_t to uint64_t
Ext64(w) == <<0, 0, w[1], w[2]>>
\* x << 16 on uint64_t: the top limb is shifted out
Shl16(x) == <<x[2], x[3], x[4], 0>>
\* x << 32 on uint64_t: the two top limbs are shifted out
Shl32(x) == <<x[3], x[4], 0, 0>>

\* PageId(uint64_t tl_id, uint32_t page_num), from numbers below 2^31
PageId(tl_id, page_num) == [timeline_id |-> U64(tl_id), page_number |-> U32(page_num)]

\* page_key: (page_id.timeline_id << 32) | page_id.page_number
page_key(page_id) == Or64(Shl32(page_id.timeline_id), Ext64(page_id.page_number))

\* a page image: MARIADB_PAGE_SIZE bytes
PageImages == [1..MARIADB_PAGE_SIZE -> {0, 1, 2}]
\* a data pointer that points at nothing
NoData == <<>>
\* the image PageserverClient::read_page fills the buffer with
ServedImage(page_id) == [i \in 1..MARIADB_PAGE_SIZE |-> 1]
\* the images a local mutation leaves: one without a zero byte, and one with
\* a zero byte after its first byte
MutatedImages == {[i \in 1..MARIADB_PAGE_SIZE |-> 2],
                  [i \in 1..MARIADB_PAGE_SIZE |-> IF i = 1 THEN 2 ELSE 0]}

\* what a caller's buffer holds before a read fills it
StaleImage == [i \in 1..MARIADB_PAGE_SIZE |-> 2]

\* HttpResponse after curl_easy_perform: whether the transfer completed
\* (CURLE_OK), the response code, and the bytes write_callback collected
\* (data stays nullptr, size 0, when no body byte arrived)
Bodies == UNION {[1..n -> {1}] : n \in 0..(MARIADB_PAGE_SIZE + 1)}
Responses == [curl_ok : BOOLEAN, code : {200, 404}, body : Bodies]
\* the exchanges of a service that serves whole pages or cannot be reached
TransferFailed == [curl_ok |-> FALSE, code |-> 200, body |-> <<>>]
Served(page_id) == [curl_ok |-> TRUE, code |-> 200, body |-> ServedImage(page_id)]

\* PageserverClient::make_http_request: 0 on CURLE_OK with response code 200
make_http_request(response) ==
    IF ~response.curl_ok THEN -1
    ELSE IF response.code = 200 THEN 0 ELSE -1

\* PageserverClient::read_page: the result and the caller's buffer afterwards;
\* a body of at most buffer_size bytes is copied and padded with zeros
read_page(response, buffer, buffer_size) ==
    LET result == make_http_request(response)
        size == Len(response.body)
    IN  IF result = 0 /\ response.body # <<>> /\ size <= buffer_size
        THEN [result |-> 0,
              buffer |-> [i \in 1..buffer_size |->
                             IF i <= size THEN response.body[i] ELSE 0]]
        ELSE [result |-> -1, buffer |-> buffer]

\* CachedPage(id): data(nullptr), dirty(false), last_access(0)
CachedPage(id) == [page_id |-> id, data |-> NoData, dirty |-> FALSE, last_access |-> 0]

\* the PageIds reads are made with: pages of table "a"
PageIds == {PageId(hash_string(<<97>>), n) : n \in 1..NumPages}

EmptyCache == [k \in {} |-> CachedPage(PageId(0, 0))]
\* unordered_map operator[] assignment and erase
CachePut(c, key, page) ==
    [k \in DOMAIN c \cup {key} |-> IF k = key THEN page ELSE c[k]]
CacheErase(c, key) == [k \in DOMAIN c \ {key} |-> c[k]]

\* an operation's record: what it did, and for a page read the result and the
\* caller's buffer as the call leaves it
NoOp == [op |-> "none", kind |-> "ps", conn |-> NULL, held |-> FALSE, cycle |-> FALSE,
         result |-> "none", buffer |-> NoData]

NoEviction == [valid |-> FALSE, last_access |-> 0, oldest |-> 0,
               dirty |-> FALSE, data |-> NoData, sent |-> <<>>]
\* a WalAppendRequest: its timeline and record, and seq, the identity of the
\* object.  record.data is a pointer: row is the session whose row buffer it
\* points into (0 when the bytes are left out of the run), and bytes what
\* that buffer held when the request was made
NoRequest == [timeline_id |-> 0, lsn |-> 0, data |-> NoData, seq |-> 0,
              row |-> 0, bytes |-> NoData]
NoTask == [op |-> "none", h |-> 0, page |-> PageId(0, 0), victim |-> U64(0),
           pending |-> {}, sent |-> <<>>, buffer |-> NoData]

\* no caller is inside an operation
NoThreads ==
    /\ pc = [t \in Threads |-> "idle"]
    /\ want = [t \in Threads |-> "ps"]
    /\ task = [t \in Threads |-> NoTask]
    /\ got = [t \in Threads |-> [k \in Kinds |-> NULL]]

\* SafekeeperClient::SafekeeperClient: connected(false), an empty queue; w is
\* the worker's position
NoPipeline(w) ==
    /\ connected = FALSE
    /\ append_queue = <<>>
    /\ shutdown_requested = FALSE
    /\ wpc = w
    /\ wreq = NoRequest
    /\ submitted = <<>>
    /\ issued = <<>>

\* the handlers, each as its constructor leaves it (current_timeline(0),
\* current_lsn(0)) or, when names gives it a table, as open(name) leaves it
HandlersOpened(names) ==
    /\ now = 0
    /\ cache_mutex = [h \in Handles |-> 0]
    /\ hstate = [h \in Handles |-> IF names[h] = <<>> THEN "new" ELSE "open"]
    /\ current_timeline = [h \in Handles |->
                              IF names[h] = <<>> THEN 0 ELSE hash_string(names[h])]
    /\ current_lsn = [h \in Handles |-> IF names[h] = <<>> THEN 0 ELSE 1]
    /\ page_cache = [h \in Handles |-> EmptyCache]
    /\ lru_list = [h \in Handles |-> <<>>]
    /\ network_calls = [h \in Handles |-> 0]
    /\ evicted = [h \in Handles |-> NoEviction]
    /\ unflushed = [h \in Handles |-> {}]
    /\ lost = [h \in Handles |-> {}]
    /\ written = [h \in Handles |-> <<>>]

NoHandlers == HandlersOpened([h \in Handles |-> <<>>])

\* is_connection_healthy: a placeholder that accepts every non-null client
is_connection_healthy(c) == c # NULL

\* warm_connections, pageserver block: n of the min creations succeed
WarmPageserver(p, n) ==
    LET new == FreshIds(p.created, n)
        a1 == p.available \o new        \* 223-230  push created connections
        m1 == p.all_connections \o a1   \* 233-236  move available to managed
        a2 == m1                        \* 239-242  release() each back, clear managed
        m2 == a2                        \* 245-248  rebuild managed, available empty
        a3 == m2                        \* 251-253  push all_connections[i].get()
    IN  [p EXCEPT !.available = a3, !.all_connections = m2,
                  !.created = p.created + n]

\* warm_connections, safekeeper block
WarmSafekeeper(p, n) ==
    LET new == FreshIds(p.created, n)
        m1 == p.all_connections \o new  \* 259-266
        a1 == p.available \o m1         \* 269-271
    IN  [p EXCEPT !.available = a1, !.all_connections = m1,
                  !.created = p.created + n]

\* the creations of one warm-up loop that can succeed: any number up to min
\* (a failed one is skipped, lines 227-229); only the exercised kind's fail
WarmCreated(k) ==
    {n \in 0..min_connections(k) :
        /\ pool[k].created + n <= MaxIds
        /\ k # focus => n = min_connections(k)}

\* warm_connections: both blocks; np, ns are the creations that succeed
warm_connections(np, ns) ==
    /\ pool' = [pool EXCEPT !["ps"] = WarmPageserver(pool["ps"], np),
                            !["sk"] = WarmSafekeeper(pool["sk"], ns)]

Init ==
    /\ focus \in Kinds
    /\ limits = DefaultLimits
    /\ removed = [k \in Kinds |-> {}]
    /\ plugin = "none"
    /\ pool = [k \in Kinds |-> EmptyPool]
    /\ leased = [k \in Kinds |-> [c \in ConnIds |-> 0]]
    /\ woken = [k \in Kinds |-> {}]
    /\ hcpc = "off"
    /\ rateLow = [k \in Kinds |-> FALSE]
    /\ warms = 0
    /\ last = NoOp
    /\ NoThreads
    /\ NoHandlers
    /\ NoPipeline("off")
    /\ wire = <<>>

\* ConnectionPool::initialize, called by serverless_init_func (line 829)
Initialize ==
    /\ plugin = "none"
    /\ \E np \in WarmCreated("ps"), ns \in WarmCreated("sk") : warm_connections(np, ns)
    /\ hcpc' = "sleep"
    /\ plugin' = "initialized"
    /\ warms' = warms + 1
    /\ last' = NoOp
    /\ UNCHANGED <<focus, limits, removed, leased, woken, rateLow, threadVars, cacheVars, pipeVars, wire>>

\* the second warm_connections of serverless_init_func (line 835), and any later call
Warm ==
    /\ plugin # "none"
    /\ warms < MaxWarm
    /\ \E np \in WarmCreated("ps"), ns \in WarmCreated("sk") : warm_connections(np, ns)
    /\ plugin' = "ready"
    /\ warms' = warms + 1
    /\ last' = NoOp
    /\ UNCHANGED <<focus, limits, removed, leased, woken, hcpc, rateLow, threadVars, cacheVars, pipeVars, wire>>

\* the test of lines 117/150: the managed vector is below the maximum, with
\* the maximum itself taken as below
UnderLimit_Inclusive(p, k) == Len(p.all_connections) <= max_connections(k)

\* the test of lines 117/150: the managed vector is below the maximum
UnderLimit(p, k) == Len(p.all_connections) < max_connections(k)

\* create_*_connection: the new client, or nullptr when construction throws
CreateOutcomes(p) == {NULL} \cup (IF p.created < MaxIds THEN {p.created + 1} ELSE {})

\* condition_variable::notify_one: one waiter of the kind, if there is one
NotifyOne(k) ==
    LET waiting == {t \in Threads : pc[t] = "waiting" /\ want[t] = k} \ woken[k]
    IN  IF waiting = {} THEN {woken[k]} ELSE {woken[k] \cup {t} : t \in waiting}

\* where a write-back continues once write_page_to_safekeeper has returned
WbDonePc(op) == IF op = "evict" THEN "evict" ELSE "closing"

\* the caller's continuation once get_*_connection has returned client:
\* a page read goes on to fetch (line 723) or fails (719-721); a write-back
\* goes on to append (764-765) or fails (756-759); a table create goes on to
\* create_timeline (422, 433) or fails (417-419, 428-430), its local pointers
\* gone with it; a direct caller is done
AfterAcquire(t, client) ==
    LET op == task[t].op
    IN  /\ pc' = [pc EXCEPT ![t] =
                    CASE op = "read" -> IF client # NULL THEN "fetch" ELSE "idle"
                      [] op \in {"evict", "close"} ->
                             IF client # NULL THEN "wb_send" ELSE WbDonePc(op)
                      [] op = "create" ->
                             IF client = NULL THEN "idle"
                             ELSE IF want[t] = "ps" THEN "create_ps" ELSE "create_sk"
                      [] OTHER -> "idle"]
        /\ task' = [task EXCEPT ![t] = IF op \in {"read", "create"} /\ client = NULL
                                       THEN NoTask ELSE @]
        /\ got' = IF op = "create" /\ client = NULL
                  THEN [got EXCEPT ![t] = [k \in Kinds |-> NULL]]
                  ELSE [got EXCEPT ![t][want[t]] = IF op = "none" THEN @ ELSE client]

\* the same, for the caller's client as the step determines it
AfterAcquireAny(t) ==
    AfterAcquire(t, IF last'.op = "unavailable" THEN NULL ELSE last'.conn)

\* get_*_connection, line 108/141: the request counter, before the lock
AcquireBegin(t, k) ==
    /\ plugin # "none"
    /\ pc[t] = "idle"
    /\ k = focus
    /\ pool[k].requests < MaxRequests
    /\ pool' = [pool EXCEPT ![k].requests = @ + 1]
    /\ pc' = [pc EXCEPT ![t] = "waiting"]
    /\ want' = [want EXCEPT ![t] = k]
    /\ UNCHANGED <<focus, limits, removed, plugin, leased, woken, hcpc, rateLow, warms, task, got,
                   cacheVars, pipeVars, wire, last>>

\* get_*_connection, lines 131-137: wait_for saw a non-empty queue
AcquireTake(t) ==
    LET k == want[t]
        p == pool[k]
    IN  /\ pc[t] = "waiting"
        /\ p.available # <<>>
        /\ LET client == Head(p.available)
           IN  /\ pool' = [pool EXCEPT ![k].available = Tail(p.available),
                                       ![k].cache_hits = @ + 1]
               /\ last' = [op |-> "acquire", kind |-> k, conn |-> client,
                           held |-> leased[k][client] > 0, cycle |-> FALSE, result |-> "none", buffer |-> NoData]
               /\ leased' = [leased EXCEPT ![k][client] = @ + 1]
               /\ AfterAcquire(t, client)
        /\ woken' = [woken EXCEPT ![k] = @ \ {t}]
        /\ UNCHANGED <<focus, limits, removed, plugin, want, hcpc, rateLow, warms, cacheVars, pipeVars, wire>>

\* AcquireTimeout as a plain wait() would leave it: at capacity the caller
\* is never released by the timer
AcquireTimeout_NoTimer(t) ==
    LET k == want[t]
        p == pool[k]
    IN  /\ pc[t] = "waiting"
        /\ p.available = <<>>
        /\ Len(p.all_connections) < max_connections(k)
        /\ p.created < MaxIds
        /\ pool' = [pool EXCEPT ![k].all_connections = Append(@, p.created + 1),
                                ![k].created = p.created + 1]
        /\ leased' = [leased EXCEPT ![k][p.created + 1] = @ + 1]
        /\ last' = [op |-> "acquire_new", kind |-> k, conn |-> p.created + 1,
                    held |-> FALSE, cycle |-> FALSE, result |-> "none", buffer |-> NoData]
        /\ AfterAcquire(t, p.created + 1)
        /\ woken' = [woken EXCEPT ![k] = @ \ {t}]
        /\ UNCHANGED <<focus, limits, removed, plugin, want, hcpc, rateLow, warms, cacheVars, pipeVars, wire>>

\* AcquireTimeout with the hit counted for every connection handed out, a
\* created one included
AcquireTimeout_CountsHit(t) ==
    LET k == want[t]
        p == pool[k]
    IN  /\ pc[t] = "waiting"
        /\ p.available = <<>>
        /\ \E client \in (IF UnderLimit(p, k) THEN CreateOutcomes(p) ELSE {NULL}) :
              IF client # NULL
              THEN /\ pool' = [pool EXCEPT ![k].all_connections = Append(@, client),
                                           ![k].created = client,
                                           ![k].cache_hits = @ + 1]
                   /\ leased' = [leased EXCEPT ![k][client] = @ + 1]
                   /\ last' = [op |-> "acquire_new", kind |-> k, conn |-> client,
                               held |-> FALSE, cycle |-> FALSE, result |-> "none", buffer |-> NoData]
              ELSE /\ last' = [op |-> "unavailable", kind |-> k, conn |-> NULL,
                               held |-> FALSE, cycle |-> FALSE, result |-> "none", buffer |-> NoData]
                   /\ UNCHANGED <<pool, leased>>
        /\ AfterAcquireAny(t)
        /\ woken' = [woken EXCEPT ![k] = @ \ {t}]
        /\ UNCHANGED <<focus, limits, removed, plugin, want, hcpc, rateLow, warms, cacheVars, pipeVars, wire>>

\* get_*_connection, lines 116-127: wait_for timed out on an empty queue
AcquireTimeout(t) ==
    LET k == want[t]
        p == pool[k]
    IN  /\ pc[t] = "waiting"
        /\ p.available = <<>>
        /\ \E client \in (IF UnderLimit(p, k) THEN CreateOutcomes(p) ELSE {NULL}) :
              IF client # NULL
              THEN /\ pool' = [pool EXCEPT ![k].all_connections = Append(@, client),
                                           ![k].created = client]
                   /\ leased' = [leased EXCEPT ![k][client] = @ + 1]
                   /\ last' = [op |-> "acquire_new", kind |-> k, conn |-> client,
                               held |-> FALSE, cycle |-> FALSE, result |-> "none", buffer |-> NoData]
              ELSE /\ last' = [op |-> "unavailable", kind |-> k, conn |-> NULL,
                               held |-> FALSE, cycle |-> FALSE, result |-> "none", buffer |-> NoData]
                   /\ UNCHANGED <<pool, leased>>
        /\ AfterAcquireAny(t)
        /\ woken' = [woken EXCEPT ![k] = @ \ {t}]
        /\ UNCHANGED <<focus, limits, removed, plugin, want, hcpc, rateLow, warms, cacheVars, pipeVars, wire>>

\* ReturnToPool without the lookup: whatever is handed in is queued
ReturnToPool_NoLookup(p, client) ==
    IF client # NULL THEN [p EXCEPT !.available = Append(@, client)] ELSE p

\* return_*_connection on the pool's containers: find_if over the managed vector
ReturnToPool(p, client) ==
    LET i == FindFirst(p.all_connections, client)
    IN  IF client # NULL /\ i # 0
        THEN [p EXCEPT !.available = Append(@, p.all_connections[i]),
                       !.all_connections = EraseAt(@, i)]
        ELSE p

\* return_*_connection(client): by a lessee, or with a pointer the pool never made;
\* last.cycle records that the release came right after the acquire of the
\* same connection, with no caller inside get_*_connection
Return(k, client) ==
    /\ plugin # "none"
    /\ k = focus
    /\ client \in {c \in ConnIds : leased[k][c] > 0} \cup {NULL, Foreign}
    /\ pool' = [pool EXCEPT ![k] = ReturnToPool(@, client)]
    /\ woken' \in (IF pool'[k] # pool[k]
                   THEN {[woken EXCEPT ![k] = w] : w \in NotifyOne(k)}
                   ELSE {woken})
    /\ leased' = IF client \in ConnIds
                 THEN [leased EXCEPT ![k][client] = @ - 1] ELSE leased
    /\ last' = [op |-> "return", kind |-> k, conn |-> client,
                held |-> client \in ConnIds,
                cycle |-> /\ last.op \in {"acquire", "acquire_new"}
                          /\ last.kind = k /\ last.conn = client
                          /\ \A u \in Threads : pc[u] = "idle",
                result |-> "none", buffer |-> NoData]
    /\ UNCHANGED <<focus, limits, removed, plugin, hcpc, rateLow, warms, threadVars, cacheVars, pipeVars, wire>>

\* hit rate below 0.8 (lines 345-348): hits / requests, 1.0 when there were none
HitRateLow(p) == p.requests > 0 /\ 5 * p.cache_hits < 4 * p.requests

ScalePc(k) == IF k = "ps" THEN "scale_ps" ELSE "scale_sk"
GrowPc(k) == IF k = "ps" THEN "grow_ps" ELSE "grow_sk"
AfterPc(k) == IF k = "ps" THEN "scale_sk" ELSE "sleep"

\* the check the placeholder stands for: a client in bad fails it
probe_healthy(c, bad) == is_connection_healthy(c) /\ c \notin bad

\* health_check_worker, lines 308-334, and the rates scale_pool_if_needed reads
\* first: every managed connection that fails the check is erased from the
\* managed vector (313, 327)
HealthPass(bad) ==
    /\ hcpc = "sleep"
    /\ pool' = [k \in Kinds |->
                  [pool[k] EXCEPT !.all_connections =
                      SelectSeq(@, LAMBDA c : probe_healthy(c, bad[k]))]]
    /\ removed' = [k \in Kinds |->
                     removed[k] \cup (Range(pool[k].all_connections) \cap bad[k])]
    /\ rateLow' = [k \in Kinds |-> HitRateLow(pool[k])]
    /\ hcpc' = "scale_ps"
    /\ last' = NoOp
    /\ UNCHANGED <<focus, limits, plugin, leased, woken, warms, threadVars, cacheVars,
                   pipeVars, wire>>

\* the pass as the code runs it: is_connection_healthy rejects no managed client
HealthCheck == HealthPass([k \in Kinds |-> {}])

\* a pass that finds one managed connection of the exercised kind unhealthy
HealthCheckFailing ==
    \E c \in Range(pool[focus].all_connections) :
        HealthPass([k \in Kinds |-> IF k = focus THEN {c} ELSE {}])

\* scale_pool_if_needed, lines 351/361: the test, made before the lock is taken
ScaleTest(k) ==
    /\ hcpc = ScalePc(k)
    /\ hcpc' = IF rateLow[k] /\ Len(pool[k].all_connections) < max_connections(k)
               THEN GrowPc(k) ELSE AfterPc(k)
    /\ last' = NoOp
    /\ UNCHANGED <<focus, limits, removed, plugin, pool, leased, woken, rateLow, warms,
                   threadVars, cacheVars, pipeVars, wire>>

\* scale_pool_if_needed, lines 352-358/362-368: create one and push it to the managed vector
ScaleGrow(k) ==
    /\ hcpc = GrowPc(k)
    /\ \E client \in CreateOutcomes(pool[k]) :
          /\ pool' = IF client # NULL
                     THEN [pool EXCEPT ![k].all_connections = Append(@, client),
                                       ![k].created = client]
                     ELSE pool
          /\ last' = NoOp
    /\ hcpc' = AfterPc(k)
    /\ UNCHANGED <<focus, limits, removed, plugin, leased, woken, rateLow, warms,
                   threadVars, cacheVars, pipeVars, wire>>

PoolNext ==
    \/ Initialize
    \/ Warm
    \/ \E t \in Callers, k \in Kinds : AcquireBegin(t, k)
    \/ \E t \in Callers : AcquireTake(t)
    \/ \E t \in Callers : AcquireTimeout(t)
    \/ \E k \in Kinds, c \in ConnIds \cup {NULL, Foreign} : Return(k, c)
    \/ HealthCheck
    \/ \E k \in Kinds : ScaleTest(k)
    \/ \E k \in Kinds : ScaleGrow(k)

Spec == Init /\ [][PoolNext]_vars

\* the pool with a health check that can fail
HealthNext ==
    \/ PoolNext
    \/ HealthCheckFailing

SpecHealth == Init /\ [][HealthNext]_vars

\* reset_stats, lines 399-400: the two request counters are stored as 0
ResetRequests(t) ==
    /\ plugin # "none"
    /\ pc[t] = "idle"
    /\ pool' = [k \in Kinds |-> [pool[k] EXCEPT !.requests = 0]]
    /\ pc' = [pc EXCEPT ![t] = "reset_hits"]
    /\ last' = NoOp
    /\ UNCHANGED <<focus, limits, removed, plugin, leased, woken, hcpc, rateLow, warms,
                   want, task, got, cacheVars, pipeVars, wire>>

\* reset_stats, lines 401-402: the two hit counters are stored as 0
ResetHits(t) ==
    /\ pc[t] = "reset_hits"
    /\ pool' = [k \in Kinds |-> [pool[k] EXCEPT !.cache_hits = 0]]
    /\ pc' = [pc EXCEPT ![t] = "idle"]
    /\ last' = [NoOp EXCEPT !.op = "reset_stats"]
    /\ UNCHANGED <<focus, limits, removed, plugin, leased, woken, hcpc, rateLow, warms,
                   want, task, got, cacheVars, pipeVars, wire>>

\* the pool after initialize(), with callers that acquire and release and a
\* caller that also resets the statistics
StatsNext ==
    \/ Initialize
    \/ \E t \in Callers, k \in Kinds : AcquireBegin(t, k)
    \/ \E t \in Callers : AcquireTake(t)
    \/ \E t \in Callers : AcquireTimeout(t)
    \/ \E k \in Kinds, c \in ConnIds : Return(k, c)
    \/ ResetRequests(1)
    \/ ResetHits(1)

SpecStats == Init /\ [][StatsNext]_vars

(***************************************************************************)
(* ConnectionPool::shutdown, run while callers use the pool.  plugin goes  *)
(* on from "initialized"/"ready" to "joining" (the flag is cleared and the *)
(* health thread awaited), "draining" (the pageserver containers are       *)
(* cleared), and "stopped" (shutdown has returned) or "crashed"            *)
(***************************************************************************)
\* the atomic flag the health loop tests: set by initialize, cleared by shutdown
health_check_running == plugin \in {"initialized", "ready"}

\* the process has not been ended by a double delete
process_alive == plugin # "crashed"

\* shutdown, line 48: the flag is cleared; join() waits for the health thread
ShutdownBegin ==
    /\ health_check_running
    /\ plugin' = "joining"
    /\ last' = NoOp
    /\ UNCHANGED <<focus, limits, removed, pool, leased, woken, hcpc, rateLow, warms,
                   threadVars, cacheVars, pipeVars, wire>>

\* health_check_worker, lines 303 and 306: the loop finds the flag cleared
\* and the thread ends; a pass that has begun runs to its end first
HealthExit ==
    /\ ~health_check_running
    /\ hcpc = "sleep"
    /\ hcpc' = "off"
    /\ last' = NoOp
    /\ UNCHANGED <<focus, limits, removed, plugin, pool, leased, woken, rateLow, warms,
                   threadVars, cacheVars, pipeVars, wire>>

\* a connection object that more than one unique_ptr of the two containers owns
DoublyOwned(p) ==
    \E c \in ConnIds : Count(p.available, c) + Count(p.all_connections, c) > 1

\* shutdown is about to clear the containers of kind k: the pageserver block
\* (54-60) once join() has returned, the safekeeper block (62-68) after it
DrainDue(k) ==
    \/ k = "ps" /\ plugin = "joining" /\ hcpc = "off"
    \/ k = "sk" /\ plugin = "draining"

\* shutdown, lines 54-60 / 62-68: every queued unique_ptr is popped and the
\* managed vector cleared, each destroying its connection.  Destroying an
\* object a second time is undefined: the process goes on, or ends there
ShutdownDrain(k) ==
    LET next == IF k = "ps" THEN "draining" ELSE "stopped"
    IN  /\ DrainDue(k)
        /\ pool' = [pool EXCEPT ![k].available = <<>>, ![k].all_connections = <<>>]
        /\ plugin' \in (IF DoublyOwned(pool[k]) THEN {next, "crashed"} ELSE {next})
        /\ last' = [NoOp EXCEPT !.op = "shutdown", !.kind = k]
        /\ UNCHANGED <<focus, limits, removed, leased, woken, hcpc, rateLow, warms,
                       threadVars, cacheVars, pipeVars, wire>>

\* the pool from its construction to the return of shutdown(), with callers
\* acquiring and releasing throughout
ShutdownNext ==
    \/ Initialize
    \/ health_check_running /\ Warm
    \/ process_alive /\ \E t \in Callers, k \in Kinds : AcquireBegin(t, k)
    \/ process_alive /\ \E t \in Callers : AcquireTake(t)
    \/ process_alive /\ \E t \in Callers : AcquireTimeout(t)
    \/ process_alive /\ \E k \in Kinds, c \in ConnIds : Return(k, c)
    \/ health_check_running /\ HealthCheck
    \/ process_alive /\ \E k \in Kinds : ScaleTest(k)
    \/ process_alive /\ \E k \in Kinds : ScaleGrow(k)
    \/ ShutdownBegin
    \/ HealthExit
    \/ \E k \in Kinds : ShutdownDrain(k)

SpecShutdown == Init /\ [][ShutdownNext]_vars

\* wait_for returns when its timeout expires and every critical section of the
\* pool is finite, so a caller inside get_*_connection always gets to finish it
FairSpec ==
    /\ Init /\ [][PoolNext]_vars
    /\ \A t \in Callers : WF_vars(AcquireTake(t) \/ AcquireTimeout(t))

(***************************************************************************)
(* ha_serverless: the page cache                                           *)
(***************************************************************************)
\* the state serverless_init_func leaves the pool in: initialize() and the
\* second warm_connections(), each creating what its loops manage to create
WarmedPool(k, n1, n2) ==
    IF k = "ps" THEN WarmPageserver(WarmPageserver(EmptyPool, n1), n2)
    ELSE WarmSafekeeper(WarmSafekeeper(EmptyPool, n1), n2)

PluginReady(created) ==
    /\ focus = "ps"
    /\ limits = DefaultLimits
    /\ removed = [k \in Kinds |-> {}]
    /\ plugin = "ready"
    /\ \E n \in created : pool = [k \in Kinds |-> WarmedPool(k, n[k], n[k])]
    /\ leased = [k \in Kinds |-> [c \in ConnIds |-> 0]]
    /\ woken = [k \in Kinds |-> {}]
    /\ hcpc = "sleep"
    /\ rateLow = [k \in Kinds |-> FALSE]
    /\ warms = 2
    /\ last = NoOp
    /\ NoThreads
    /\ wire = <<>>

\* the warm-up creations all succeed, or all fail (no service is reachable yet)
WarmOutcomes == {[k \in Kinds |-> IF ok THEN min_connections(k) ELSE 0] : ok \in BOOLEAN}

\* the test of line 732
InsertNeedsEviction_Late(size) == size > MAX_CACHED_PAGES

InsertNeedsEviction(size) == size >= MAX_CACHED_PAGES

\* get_*_connection entered by a handler operation: line 108/141
EnterAcquire(t, k) ==
    /\ pool' = [pool EXCEPT ![k].requests = @ + 1]
    /\ pc' = [pc EXCEPT ![t] = "waiting"]
    /\ want' = [want EXCEPT ![t] = k]

\* LeaveLease by a caller that holds the bare pointer: nothing is handed back
LeaveLease_Keep(t, k) ==
    /\ got' = [got EXCEPT ![t][k] = NULL]
    /\ UNCHANGED <<pool, woken, leased>>

\* ~PooledPageserverConnection / ~PooledSafekeeperConnection: return_*_connection
LeaveLease(t, k) ==
    LET client == got[t][k]
    IN  /\ pool' = [pool EXCEPT ![k] = ReturnToPool(@, client)]
        /\ woken' \in (IF pool'[k] # pool[k]
                       THEN {[woken EXCEPT ![k] = w] : w \in NotifyOne(k)}
                       ELSE {woken})
        /\ leased' = IF client \in ConnIds
                     THEN [leased EXCEPT ![k][client] = @ - 1] ELSE leased
        /\ got' = [got EXCEPT ![t][k] = NULL]

(***************************************************************************)
(* A pool of one kind at capacity: min = max, every connection warmed by   *)
(* initialize(), and callers that acquire with a zero timeout and hold     *)
(***************************************************************************)
\* ConnectionPool(FullSize, FullSize, ...) after initialize() created them all
InitFull ==
    /\ focus \in Kinds
    /\ limits = [k \in Kinds |-> [min |-> FullSize, max |-> FullSize]]
    /\ removed = [k \in Kinds |-> {}]
    /\ plugin = "initialized"
    /\ pool = [k \in Kinds |-> IF k = "ps" THEN WarmPageserver(EmptyPool, FullSize)
                                ELSE WarmSafekeeper(EmptyPool, FullSize)]
    /\ leased = [k \in Kinds |-> [c \in ConnIds |-> 0]]
    /\ woken = [k \in Kinds |-> {}]
    /\ hcpc = "sleep"
    /\ rateLow = [k \in Kinds |-> FALSE]
    /\ warms = 1
    /\ last = NoOp
    /\ NoThreads
    /\ NoHandlers
    /\ NoPipeline("off")
    /\ wire = <<>>

\* get_*_connection(0ms) by a thread that holds nothing: line 108/141
HoldBegin(t) ==
    /\ pc[t] = "idle"
    /\ got[t][focus] = NULL
    /\ pool[focus].requests < MaxHoldRequests
    /\ EnterAcquire(t, focus)
    /\ task' = [task EXCEPT ![t].op = IF @ = "none" THEN "hold" ELSE @]
    /\ UNCHANGED <<focus, limits, removed, plugin, leased, woken, hcpc, rateLow, warms, got,
                   cacheVars, pipeVars, wire, last>>

\* the holder hands its connection back: return_*_connection
HoldRelease(t) ==
    /\ pc[t] = "idle"
    /\ got[t][focus] # NULL
    /\ LeaveLease(t, focus)
    /\ task' = [task EXCEPT ![t].op = "released"]
    /\ last' = [NoOp EXCEPT !.op = "return", !.kind = focus, !.conn = got[t][focus],
                            !.held = TRUE]
    /\ UNCHANGED <<focus, limits, removed, plugin, hcpc, rateLow, warms, pc, want,
                   cacheVars, pipeVars, wire>>

FullNext ==
    \/ \E t \in Threads : HoldBegin(t)
    \/ \E t \in Threads : AcquireTake(t)
    \/ \E t \in Threads : AcquireTimeout(t)
    \/ \E t \in Threads : HoldRelease(t)
    \/ HealthCheck
    \/ \E k \in Kinds : ScaleTest(k)
    \/ \E k \in Kinds : ScaleGrow(k)

SpecFull == InitFull /\ [][FullNext]_vars

\* time(nullptr) advances
Tick ==
    /\ now < MaxTime
    /\ now' = now + 1
    /\ last' = NoOp
    /\ UNCHANGED <<poolVars, threadVars, cache_mutex, hstate, current_timeline,
                   current_lsn, page_cache, lru_list, network_calls, evicted,
                   unflushed, lost, written, pipeVars, wire>>

\* a hit that leaves the entry's last_access alone
CacheHit_NoRefresh(c, key, time) == c

\* line 707 on the entry found: page->last_access = time(nullptr)
CacheHit(c, key, time) == [c EXCEPT ![key].last_access = time]

\* read_page_from_cache_or_pageserver, lines 698-717: the lookup under the
\* mutex; a hit copies the page to the caller's buffer (706) and refreshes
\* last_access, a miss counts a network call and enters get_pageserver_connection
ReadLookup(t, h, page_id) ==
    LET key == page_key(page_id)
    IN  /\ pc[t] = "idle"
        /\ hstate[h] = "open"
        /\ cache_mutex[h] = 0
        /\ IF key \in DOMAIN page_cache[h]
           THEN /\ page_cache' = [page_cache EXCEPT ![h] = CacheHit(@, key, now)]
                /\ last' = [NoOp EXCEPT !.op = "hit", !.result = "ok",
                                        !.buffer = page_cache[h][key].data]
                /\ UNCHANGED <<poolVars, threadVars, network_calls>>
           ELSE /\ network_calls[h] < MaxNetworkCalls
                /\ network_calls' = [network_calls EXCEPT ![h] = @ + 1]
                /\ EnterAcquire(t, "ps")
                /\ task' = [task EXCEPT ![t] = [NoTask EXCEPT !.op = "read", !.h = h,
                                                              !.page = page_id]]
                /\ last' = NoOp
                /\ UNCHANGED <<focus, limits, removed, plugin, leased, woken, hcpc, rateLow, warms,
                               got, page_cache>>
        /\ UNCHANGED <<now, cache_mutex, hstate, current_timeline, current_lsn,
                       lru_list, evicted, unflushed, lost, written, pipeVars, wire>>

\* std::min of last_access over the cached pages
OldestAccess(c) ==
    CHOOSE a \in {c[k].last_access : k \in DOMAIN c} :
        \A k \in DOMAIN c : a <= c[k].last_access

\* lines 731-744 once any write-back is over: evict_page_from_cache's delete,
\* erase and lru_list.remove (783-788) when the test of line 732 asked for it,
\* then the new CachedPage, page_cache[key] = new_page, push_front, unlock; and
\* the pooled pageserver connection goes back as the function returns
InsertPage(t, evict) ==
    LET h == task[t].h
        key == page_key(task[t].page)
        victim == lru_list[h][Len(lru_list[h])]
        c0 == page_cache[h]
        c1 == IF evict /\ victim \in DOMAIN c0 THEN CacheErase(c0, victim) ELSE c0
        l1 == IF evict THEN SelectSeq(lru_list[h], LAMBDA k : k # victim)
              ELSE lru_list[h]
        new_page == [CachedPage(task[t].page) EXCEPT
                        !.data = task[t].buffer, !.last_access = now]
        dropped == IF key \in DOMAIN c1 THEN {key} ELSE {}
    IN  /\ page_cache' = [page_cache EXCEPT ![h] = CachePut(c1, key, new_page)]
        /\ lru_list' = [lru_list EXCEPT ![h] = <<key>> \o l1]
        /\ evicted' = IF evict /\ victim \in DOMAIN c0
                      THEN [evicted EXCEPT ![h] =
                               [valid |-> TRUE,
                                last_access |-> c0[victim].last_access,
                                oldest |-> OldestAccess(c0),
                                dirty |-> c0[victim].dirty,
                                data |-> c0[victim].data,
                                sent |-> task[t].sent]]
                      ELSE evicted
        /\ lost' = [lost EXCEPT ![h] = @ \cup (dropped \cap unflushed[h])]
        /\ unflushed' = [unflushed EXCEPT ![h] = @ \ dropped]
        /\ written' = IF evict /\ victim \in DOMAIN written[h]
                      THEN [written EXCEPT ![h] = CacheErase(@, victim)]
                      ELSE written
        /\ cache_mutex' = [cache_mutex EXCEPT ![h] = 0]
        /\ LeaveLease(t, "ps")
        /\ pc' = [pc EXCEPT ![t] = "idle"]
        /\ task' = [task EXCEPT ![t] = NoTask]
        /\ last' = [NoOp EXCEPT !.op = "insert", !.result = "ok",
                                 !.buffer = task[t].buffer]
        /\ UNCHANGED <<focus, limits, removed, plugin, hcpc, rateLow, warms, want, now, hstate,
                       current_timeline, current_lsn, network_calls, pipeVars, wire>>

\* lines 723-724 and 747: read_page through the pooled connection, into the
\* caller's buffer; on an error the function returns it, and the lease goes
\* back as pooled_client is destroyed
ReadFetchFrom(t, responses, buffers) ==
    /\ pc[t] = "fetch"
    /\ \E response \in responses, buffer \in buffers :
          LET r == read_page(response, buffer, MARIADB_PAGE_SIZE)
          IN  IF r.result = 0
              THEN /\ pc' = [pc EXCEPT ![t] = "insert"]
                   /\ task' = [task EXCEPT ![t].buffer = r.buffer]
                   /\ last' = NoOp
                   /\ UNCHANGED <<pool, woken, leased, got>>
              ELSE /\ LeaveLease(t, "ps")
                   /\ pc' = [pc EXCEPT ![t] = "idle"]
                   /\ task' = [task EXCEPT ![t] = NoTask]
                   /\ last' = [NoOp EXCEPT !.op = "read", !.result = "error",
                                           !.buffer = r.buffer]
    /\ UNCHANGED <<focus, limits, removed, plugin, hcpc, rateLow, warms, want, cacheVars, pipeVars, wire>>

\* the read against a service that serves the whole page or cannot be reached
ReadFetch(t) == ReadFetchFrom(t, {TransferFailed, Served(task[t].page)}, {StaleImage})

\* write_page_to_safekeeper entered for the page under key, lines 752-756
EnterWriteBack(t, h, key) ==
    /\ network_calls' = [network_calls EXCEPT ![h] = @ + 1]
    /\ EnterAcquire(t, "sk")
    /\ unflushed' = [unflushed EXCEPT ![h] = @ \ {key}]

\* lines 731-735: the mutex is taken; a dirty victim is written back first
\* (evict_page_from_cache 779-782), with the mutex held
ReadInsert(t) ==
    LET h == task[t].h
        evict == InsertNeedsEviction(Cardinality(DOMAIN page_cache[h]))
        victim == lru_list[h][Len(lru_list[h])]
    IN  /\ pc[t] = "insert"
        /\ cache_mutex[h] = 0
        /\ IF evict /\ victim \in DOMAIN page_cache[h] /\ page_cache[h][victim].dirty
           THEN /\ cache_mutex' = [cache_mutex EXCEPT ![h] = t]
                /\ EnterWriteBack(t, h, victim)
                /\ task' = [task EXCEPT ![t].op = "evict", ![t].victim = victim]
                /\ last' = NoOp
                /\ UNCHANGED <<focus, limits, removed, plugin, leased, woken, hcpc, rateLow, warms, got,
                               now, hstate, current_timeline, current_lsn, page_cache,
                               lru_list, evicted, lost, written, pipeVars, wire>>
           ELSE InsertPage(t, evict)

\* EvictFinish by a reader that gives up when the write-back sent nothing: the
\* mutex is released and the read returns an error
EvictFinish_Abort(t) ==
    /\ pc[t] = "evict"
    /\ IF task[t].sent # <<>>
       THEN InsertPage(t, TRUE)
       ELSE /\ cache_mutex' = [cache_mutex EXCEPT ![task[t].h] = 0]
            /\ LeaveLease(t, "ps")
            /\ pc' = [pc EXCEPT ![t] = "idle"]
            /\ task' = [task EXCEPT ![t] = NoTask]
            /\ last' = [NoOp EXCEPT !.op = "read", !.result = "error"]
            /\ UNCHANGED <<focus, limits, removed, plugin, hcpc, rateLow, warms, want, now,
                           hstate, current_timeline, current_lsn, page_cache, lru_list,
                           network_calls, evicted, unflushed, lost, written, pipeVars, wire>>

\* evict_page_from_cache 783-788 and the insertion, after the write-back of the victim
EvictFinish(t) ==
    /\ pc[t] = "evict"
    /\ InsertPage(t, TRUE)

\* the "%.*s" of serialize_append_request: the bytes of data before its first
\* zero byte, record.length of them at most
RECURSIVE Printed(_)
Printed(data) ==
    IF data = <<>> \/ Head(data) = 0 THEN <<>>
    ELSE <<Head(data)>> \o Printed(Tail(data))

\* serialize_append_request: snprintf into request_buffer; -1 (here FALSE)
\* when the output does not fit
serialize_append_request(record) == Len(Printed(record.data)) < RequestRoom

\* SafekeeperClient::append_wal_record on a client whose connected flag is
\* conn: the ways it can run, each with its result and the flag it leaves.
\* reconnect_if_needed calls establish_connection only when the flag is unset
\* (166, 103-105), and only establish_connection's success sets it (90);
\* serialize, send_message and receive_message return -1 and leave it alone
AppendRuns(record, conn) ==
    (IF conn THEN {} ELSE {[result |-> "connect_failed", connected |-> FALSE]})
    \cup {[result |-> r, connected |-> TRUE] :
            r \in (IF serialize_append_request(record)
                   THEN {"send_failed", "recv_failed", "ok"}
                   ELSE {"serialize_failed"})}

\* what a run means for the service: nothing sent, sent and not acknowledged, or done
WireOutcome(result) ==
    CASE result = "ok" -> "ok"
      [] result = "recv_failed" -> "noack"
      [] OTHER -> "nosend"

\* append_wal_record on a pooled client, whatever its connected flag is
AppendOutcomes(record) ==
    {WireOutcome(run.result) : run \in AppendRuns(record, TRUE) \cup AppendRuns(record, FALSE)}

\* what the Log service has received after an append of record with that outcome
Sent(record, via, outcome) ==
    IF outcome = "nosend" THEN wire
    ELSE Append(wire, [timeline_id |-> record.timeline_id, lsn |-> record.lsn,
                       data |-> Printed(record.data), via |-> via,
                       seq |-> record.seq])

\* write_page_to_safekeeper 761-771: WalRecord(current_lsn++, ...), the
\* synchronous append on the pooled client, and the lease going back
WbSend(t) ==
    LET h == task[t].h
        key == task[t].victim
        record == [timeline_id |-> current_timeline[h], lsn |-> current_lsn[h],
                   data |-> page_cache[h][key].data, seq |-> 0]
    IN  /\ pc[t] = "wb_send"
        /\ current_lsn' = [current_lsn EXCEPT ![h] = @ + 1]
        /\ \E outcome \in AppendOutcomes(record) :
              /\ wire' = Sent(record, "sync", outcome)
              /\ written' = IF outcome = "ok"
                            THEN [written EXCEPT ![h] = CachePut(@, key, record.data)]
                            ELSE written
              /\ task' = IF task[t].op = "evict" /\ outcome # "nosend"
                         THEN [task EXCEPT ![t].sent = Append(@, Printed(record.data))]
                         ELSE task
              /\ last' = [NoOp EXCEPT !.op = "write_back", !.held = outcome = "ok"]
        /\ LeaveLease(t, "sk")
        /\ pc' = [pc EXCEPT ![t] = WbDonePc(task[t].op)]
        /\ UNCHANGED <<focus, limits, removed, plugin, hcpc, rateLow, warms, want, now, cache_mutex,
                       hstate, current_timeline, page_cache, lru_list, network_calls,
                       evicted, unflushed, lost, pipeVars>>

\* a local mutation of a cached page sets its dirty flag, under the mutex
MarkDirty(h, key) ==
    /\ hstate[h] = "open"
    /\ cache_mutex[h] = 0
    /\ key \in DOMAIN page_cache[h]
    /\ ~page_cache[h][key].dirty
    /\ \E image \in MutatedImages :
          page_cache' = [page_cache EXCEPT ![h][key].data = image,
                                           ![h][key].dirty = TRUE]
    /\ unflushed' = [unflushed EXCEPT ![h] = @ \cup {key}]
    /\ last' = NoOp
    /\ UNCHANGED <<poolVars, threadVars, now, cache_mutex, hstate, current_timeline,
                   current_lsn, lru_list, network_calls, evicted, lost, written, pipeVars, wire>>

\* ha_serverless::open: initialize_timeline, then the two ensure_* checks
Open(h, name) ==
    /\ plugin = "ready"
    /\ hstate[h] \in {"new", "closed"}
    /\ hstate' = [hstate EXCEPT ![h] = "open"]
    /\ current_timeline' = [current_timeline EXCEPT ![h] = hash_string(name)]
    /\ current_lsn' = [current_lsn EXCEPT ![h] = 1]
    /\ last' = NoOp
    /\ UNCHANGED <<poolVars, threadVars, now, cache_mutex, page_cache, lru_list,
                   network_calls, evicted, unflushed, lost, written, pipeVars, wire>>

\* ha_serverless::close, lines 394-403: the mutex is taken for the flush loop;
\* with no dirty page in the map the loop writes nothing and close is over
CloseBegin(t, h) ==
    LET dirty == {k \in DOMAIN page_cache[h] : page_cache[h][k].dirty}
    IN  /\ pc[t] = "idle"
        /\ hstate[h] = "open"
        /\ cache_mutex[h] = 0
        /\ network_calls[h] < MaxNetworkCalls
        /\ IF dirty = {}
           THEN /\ hstate' = [hstate EXCEPT ![h] = "closed"]
                /\ UNCHANGED <<cache_mutex, pc, task>>
           ELSE /\ cache_mutex' = [cache_mutex EXCEPT ![h] = t]
                /\ pc' = [pc EXCEPT ![t] = "closing"]
                /\ task' = [task EXCEPT ![t] = [NoTask EXCEPT !.op = "close", !.h = h,
                                                              !.pending = dirty]]
                /\ UNCHANGED hstate
        /\ last' = NoOp
        /\ UNCHANGED <<poolVars, want, got, now, current_timeline, current_lsn,
                       page_cache, lru_list, network_calls, evicted, unflushed, lost, written,
                       pipeVars, wire>>

\* ha_serverless::close, lines 395-403: the next dirty page of the map, in the
\* map's iteration order, is written back; after the last one the mutex is released
CloseStep(t) ==
    LET h == task[t].h
    IN  /\ pc[t] = "closing"
        /\ IF task[t].pending = {}
           THEN /\ cache_mutex' = [cache_mutex EXCEPT ![h] = 0]
                /\ hstate' = [hstate EXCEPT ![h] = "closed"]
                /\ pc' = [pc EXCEPT ![t] = "idle"]
                /\ task' = [task EXCEPT ![t] = NoTask]
                /\ last' = NoOp
                /\ UNCHANGED <<pool, want, network_calls, unflushed>>
           ELSE /\ \E key \in task[t].pending :
                      /\ EnterWriteBack(t, h, key)
                      /\ task' = [task EXCEPT ![t].pending = @ \ {key},
                                              ![t].victim = key]
                /\ last' = NoOp
                /\ UNCHANGED <<cache_mutex, hstate>>
        /\ UNCHANGED <<focus, limits, removed, plugin, leased, woken, hcpc, rateLow, warms, got, now,
                       current_timeline, current_lsn, page_cache, lru_list, evicted,
                       lost, written, pipeVars, wire>>

\* ha_serverless::~ha_serverless on a closed handler: every cached page is deleted
Destroy(h) ==
    /\ hstate[h] = "closed"
    /\ \A t \in Threads : task[t].h # h
    /\ lost' = [lost EXCEPT ![h] = @ \cup unflushed[h]]
    /\ unflushed' = [unflushed EXCEPT ![h] = {}]
    /\ written' = [written EXCEPT ![h] = <<>>]
    /\ page_cache' = [page_cache EXCEPT ![h] = EmptyCache]
    /\ lru_list' = [lru_list EXCEPT ![h] = <<>>]
    /\ hstate' = [hstate EXCEPT ![h] = "destroyed"]
    /\ last' = NoOp
    /\ UNCHANGED <<poolVars, threadVars, now, cache_mutex, current_timeline,
                   current_lsn, network_calls, evicted, pipeVars, wire>>

\* the handler with table "a" open, after serverless_init_func
InitCache ==
    /\ PluginReady(WarmOutcomes)
    /\ HandlersOpened([h \in Handles |-> IF h = 1 THEN <<97>> ELSE <<>>])
    /\ NoPipeline("wait")

ReadNext ==
    \/ Tick
    \/ \E t \in Sessions, h \in Handles, page_id \in PageIds : ReadLookup(t, h, page_id)
    \/ \E t \in Sessions : AcquireTake(t)
    \/ \E t \in Sessions : AcquireTimeout(t)
    \/ \E t \in Sessions : ReadFetch(t)
    \/ \E t \in Sessions : ReadInsert(t)

SpecCache == InitCache /\ [][ReadNext]_vars

DirtyNext ==
    \/ ReadNext
    \/ \E h \in Handles, page_id \in PageIds : MarkDirty(h, page_key(page_id))
    \/ \E t \in Sessions : EvictFinish(t)
    \/ \E t \in Sessions : WbSend(t)
    \/ \E t \in Sessions, h \in Handles : CloseBegin(t, h)
    \/ \E t \in Sessions : CloseStep(t)
    \/ \E h \in Handles : Destroy(h)

SpecDirty == InitCache /\ [][DirtyNext]_vars

\* one handler, closed and opened again on its table
ReopenNext ==
    \/ \E t \in Sessions, page_id \in PageIds : ReadLookup(t, 1, page_id)
    \/ \E t \in Sessions : AcquireTake(t)
    \/ \E t \in Sessions : AcquireTimeout(t)
    \/ \E t \in Sessions : ReadFetch(t)
    \/ \E t \in Sessions : ReadInsert(t)
    \/ \E page_id \in PageIds : MarkDirty(1, page_key(page_id))
    \/ \E t \in Sessions : EvictFinish(t)
    \/ \E t \in Sessions : WbSend(t)
    \/ \E t \in Sessions : CloseBegin(t, 1)
    \/ \E t \in Sessions : CloseStep(t)
    \/ Open(1, <<97>>)

SpecReopen == InitCache /\ [][ReopenNext]_vars

\* PageIds from the whole range of both fields: timelines that differ in
\* their low words, timelines that differ only above bit 31, and page
\* numbers up to 2^32 - 1
KeyTimelines == {<<0, 0, 0, 1>>, <<0, 1, 0, 1>>, <<0, 0, 1, 0>>,
                 <<LimbBase - 1, LimbBase - 1, LimbBase - 1, LimbBase - 1>>}
KeyPageNumbers == {<<0, 0>>, <<0, 1>>, <<1, 0>>, <<LimbBase - 1, LimbBase - 1>>}
KeyPageIds == {[timeline_id |-> tl, page_number |-> n] :
                  tl \in KeyTimelines, n \in KeyPageNumbers}

\* one session reading pages of any PageId through one handler's cache
KeyNext ==
    \/ \E page_id \in KeyPageIds : ReadLookup(1, 1, page_id)
    \/ AcquireTake(1)
    \/ AcquireTimeout(1)
    \/ ReadFetch(1)
    \/ ReadInsert(1)

SpecKey == InitCache /\ [][KeyNext]_vars

\* one session reading through one handler's cache while the clock advances
HitNext ==
    \/ Tick
    \/ \E page_id \in PageIds : ReadLookup(1, 1, page_id)
    \/ AcquireTake(1)
    \/ AcquireTimeout(1)
    \/ ReadFetch(1)
    \/ ReadInsert(1)

SpecHit == InitCache /\ [][HitNext]_vars

\* one session reading and dirtying pages of one handler's cache
EvictNext ==
    \/ \E page_id \in PageIds : ReadLookup(1, 1, page_id)
    \/ AcquireTake(1)
    \/ AcquireTimeout(1)
    \/ ReadFetch(1)
    \/ ReadInsert(1)
    \/ \E page_id \in PageIds : MarkDirty(1, page_key(page_id))
    \/ WbSend(1)
    \/ EvictFinish(1)

SpecEvict == InitCache /\ [][EvictNext]_vars

\* one session reading through one handler's cache against a service that can
\* answer anything
FetchNext ==
    \/ \E page_id \in PageIds : ReadLookup(1, 1, page_id)
    \/ AcquireTake(1)
    \/ AcquireTimeout(1)
    \/ ReadFetchFrom(1, Responses, {StaleImage})
    \/ ReadInsert(1)

SpecFetch == InitCache /\ [][FetchNext]_vars

(***************************************************************************)
(* ha_serverless::create                                                   *)
(***************************************************************************)
\* create, lines 412-419: get_pageserver_connection is entered
CreateBegin(t) ==
    /\ plugin = "ready"
    /\ pc[t] = "idle"
    /\ pool["ps"].requests < MaxRequests
    /\ pool["sk"].requests < MaxRequests
    /\ EnterAcquire(t, "ps")
    /\ task' = [task EXCEPT ![t] = [NoTask EXCEPT !.op = "create"]]
    /\ last' = NoOp
    /\ UNCHANGED <<focus, limits, removed, plugin, leased, woken, hcpc, rateLow, warms, got,
                   cacheVars, pipeVars, wire>>

\* create returns: the connections it obtained are plain pointers in local
\* variables, and no return_*_connection is called for them
CreateReturn(t, result) ==
    /\ pc' = [pc EXCEPT ![t] = "idle"]
    /\ task' = [task EXCEPT ![t] = NoTask]
    /\ got' = [got EXCEPT ![t] = [k \in Kinds |-> NULL]]
    /\ last' = [NoOp EXCEPT !.op = "create", !.result = result]
    /\ UNCHANGED <<pool, want>>

\* create, lines 421-430: PageserverClient::create_timeline (the result of
\* make_http_request); HA_ERR_GENERIC when it fails, else
\* get_safekeeper_connection is entered
CreateOnPageserver(t) ==
    /\ pc[t] = "create_ps"
    /\ \E response \in Responses :
          IF make_http_request(response) = 0
          THEN /\ EnterAcquire(t, "sk")
               /\ last' = NoOp
               /\ UNCHANGED <<task, got>>
          ELSE CreateReturn(t, "error")
    /\ UNCHANGED <<focus, limits, removed, plugin, leased, woken, hcpc, rateLow, warms,
                   cacheVars, pipeVars, wire>>

\* create, lines 432-437: SafekeeperClient::create_timeline, 0 or -1, and the return
CreateOnSafekeeper(t) ==
    /\ pc[t] = "create_sk"
    /\ \E result \in {"ok", "error"} : CreateReturn(t, result)
    /\ UNCHANGED <<focus, limits, removed, plugin, leased, woken, hcpc, rateLow, warms,
                   cacheVars, pipeVars, wire>>

\* one session creating tables, reading pages and flushing them at close
CreateNext ==
    \/ CreateBegin(1)
    \/ CreateOnPageserver(1)
    \/ CreateOnSafekeeper(1)
    \/ \E page_id \in PageIds : ReadLookup(1, 1, page_id)
    \/ AcquireTake(1)
    \/ AcquireTimeout(1)
    \/ ReadFetch(1)
    \/ ReadInsert(1)
    \/ \E page_id \in PageIds : MarkDirty(1, page_key(page_id))
    \/ WbSend(1)
    \/ EvictFinish(1)

SpecCreate == InitCache /\ [][CreateNext]_vars

(***************************************************************************)
(* SafekeeperClient: the asynchronous append pipeline, and the row          *)
(* operations of ha_serverless that feed it                                 *)
(***************************************************************************)
\* std::queue::push with the request at the wrong end
QueuePush_Front(q, request) == <<request>> \o q

\* std::queue::push (line 196)
QueuePush(q, request) == Append(q, request)

\* new WalAppendRequest(timeline_id, record) (line 192): the WalRecord is
\* copied member by member, its data pointer with it (serverless_types.h
\* 27-34, safekeeper_client.h 40-41)
WalAppendRequest(timeline_id, record_lsn, row) ==
    [timeline_id |-> timeline_id, lsn |-> record_lsn, data |-> NoData,
     seq |-> Len(submitted) + 1, row |-> row,
     bytes |-> IF row = 0 THEN NoData ELSE task[row].buffer]

\* lines 194-197: the request is queued under queue_mutex
Enqueue(request) ==
    /\ append_queue' = QueuePush(append_queue, request)
    /\ submitted' = Append(submitted, request)

\* append_wal_record_async: the request is queued under queue_mutex and the
\* worker notified; the caller gets 0 at once
append_wal_record_async(timeline_id, record_lsn) ==
    Enqueue(WalAppendRequest(timeline_id, record_lsn, 0))

\* the record as append_wal_record reads it: record.data is followed when it
\* is serialized, to whatever the row buffer holds by then
Pointee(request) ==
    IF request.row = 0 THEN request
    ELSE [request EXCEPT !.data = task[request.row].buffer]

\* write_row, update_row, delete_row: WalRecord(current_lsn++, ...) handed to
\* global_safekeeper_client->append_wal_record_async
WriteRow(h) ==
    /\ hstate[h] = "open"
    /\ wpc # "off"
    /\ ~shutdown_requested
    /\ current_lsn[h] < MaxLsn
    /\ Len(submitted) < MaxSubmitted
    /\ append_wal_record_async(current_timeline[h], current_lsn[h])
    /\ current_lsn' = [current_lsn EXCEPT ![h] = @ + 1]
    /\ last' = NoOp
    /\ UNCHANGED <<poolVars, threadVars, now, cache_mutex, hstate, current_timeline,
                   page_cache, lru_list, network_calls, evicted, unflushed, lost, written,
                   connected, shutdown_requested, wpc, wreq, issued, wire>>

\* WorkerTake by a worker that drains the queue before it looks at shutdown_requested
WorkerTake_Drain ==
    /\ wpc = "wait"
    /\ append_queue # <<>>
    /\ wreq' = Head(append_queue)
    /\ append_queue' = Tail(append_queue)
    /\ wpc' = "process"
    /\ last' = NoOp
    /\ UNCHANGED <<poolVars, threadVars, cacheVars, connected, shutdown_requested,
                   submitted, issued, wire>>

\* worker_thread_main 209-222: woken with shutdown not requested, it pops the front
WorkerTake ==
    /\ wpc = "wait"
    /\ ~shutdown_requested
    /\ append_queue # <<>>
    /\ wreq' = Head(append_queue)
    /\ append_queue' = Tail(append_queue)
    /\ wpc' = "process"
    /\ last' = NoOp
    /\ UNCHANGED <<poolVars, threadVars, cacheVars, connected, shutdown_requested,
                   submitted, issued, wire>>

\* WorkerProcess by a worker that puts a request whose append failed back at
\* the front of the queue
WorkerProcess_Retry ==
    /\ wpc = "process"
    /\ issued' = Append(issued, wreq)
    /\ \E run \in AppendRuns(Pointee(wreq), connected) :
          /\ wire' = Sent(Pointee(wreq), "worker", WireOutcome(run.result))
          /\ connected' = run.connected
          /\ append_queue' = IF run.result = "ok" THEN append_queue
                             ELSE <<wreq>> \o append_queue
          /\ last' = [NoOp EXCEPT !.op = "append", !.held = run.result = "ok",
                                  !.result = run.result]
    /\ wreq' = NoRequest
    /\ wpc' = "wait"
    /\ UNCHANGED <<poolVars, threadVars, cacheVars, shutdown_requested, submitted>>

\* worker_thread_main 225-230: process_append_request outside the lock, the
\* result stored in the request, the request deleted
WorkerProcess ==
    /\ wpc = "process"
    /\ issued' = Append(issued, wreq)
    /\ \E run \in AppendRuns(Pointee(wreq), connected) :
          /\ wire' = Sent(Pointee(wreq), "worker", WireOutcome(run.result))
          /\ connected' = run.connected
          /\ last' = [NoOp EXCEPT !.op = "append", !.held = run.result = "ok",
                                  !.result = run.result]
    /\ wreq' = NoRequest
    /\ wpc' = "wait"
    /\ UNCHANGED <<poolVars, threadVars, cacheVars, append_queue, shutdown_requested,
                   submitted>>

\* worker_thread_main 215-217: woken with shutdown requested, it leaves the loop
WorkerExit ==
    /\ wpc = "wait"
    /\ shutdown_requested
    /\ wpc' = "exited"
    /\ last' = NoOp
    /\ UNCHANGED <<poolVars, threadVars, cacheVars, connected, append_queue,
                   shutdown_requested, wreq, submitted, issued, wire>>

\* ~SafekeeperClient 27-31, from serverless_done_func: shutdown_requested is
\* set under queue_mutex and the worker notified
RequestShutdown ==
    /\ wpc # "off"
    /\ ~shutdown_requested
    /\ shutdown_requested' = TRUE
    /\ last' = NoOp
    /\ UNCHANGED <<poolVars, threadVars, cacheVars, connected, append_queue, wpc, wreq,
                   submitted, issued, wire>>

\* ~SafekeeperClient 33-43: after the join, the requests still queued are
\* deleted and the connection closed
DropPending ==
    /\ wpc = "exited"
    /\ append_queue' = <<>>
    /\ connected' = FALSE
    /\ wpc' = "joined"
    /\ last' = NoOp
    /\ UNCHANGED <<poolVars, threadVars, cacheVars, shutdown_requested, wreq,
                   submitted, issued, wire>>

(***************************************************************************)
(* The queue of the pipeline step by step: queue_mutex, the condition      *)
(* variable and the notify that follows the push.  The worker is at "wait" *)
(* (top of its loop, line 209), "check" (holding queue_mutex, 210-221),    *)
(* "blocked" (inside condition_variable::wait, the mutex released) or      *)
(* "process" (past the scope of the lock, 224-229)                         *)
(***************************************************************************)
\* queue_mutex as held through the send as well
QueueMutexFree_HeldInSend == wpc \notin {"check", "process"}

\* queue_mutex is free: the worker's unique_lock lives from line 209 to the
\* end of its scope at 222, and is released while the worker is blocked
QueueMutexFree == wpc # "check"

\* write_row 468-478 up to line 197 of append_wal_record_async: the record
\* takes current_lsn++, and the request is pushed under queue_mutex
AsyncPush(t, h) ==
    /\ pc[t] = "idle"
    /\ hstate[h] = "open"
    /\ ~shutdown_requested
    /\ current_lsn[h] < MaxLsn
    /\ Len(submitted) < MaxSubmitted
    /\ QueueMutexFree
    /\ append_wal_record_async(current_timeline[h], current_lsn[h])
    /\ current_lsn' = [current_lsn EXCEPT ![h] = @ + 1]
    /\ pc' = [pc EXCEPT ![t] = "notify"]
    /\ last' = NoOp
    /\ UNCHANGED <<poolVars, want, task, got, now, cache_mutex, hstate, current_timeline,
                   page_cache, lru_list, network_calls, evicted, unflushed, lost, written,
                   connected, shutdown_requested, wpc, wreq, issued, wire>>

\* AsyncNotify without the notify_one: the caller just returns
AsyncNotify_Lost(t) ==
    /\ pc[t] = "notify"
    /\ pc' = [pc EXCEPT ![t] = "idle"]
    /\ last' = [NoOp EXCEPT !.op = "append_async", !.result = "ok"]
    /\ UNCHANGED <<poolVars, want, task, got, cacheVars, pipeVars, wire>>

\* append_wal_record_async 198-200: notify_one, which releases the worker if
\* it is blocked and is lost otherwise, and return 0
AsyncNotify(t) ==
    /\ pc[t] = "notify"
    /\ wpc' = IF wpc = "blocked" THEN "wait" ELSE wpc
    /\ pc' = [pc EXCEPT ![t] = "idle"]
    /\ last' = [NoOp EXCEPT !.op = "append_async", !.result = "ok"]
    /\ UNCHANGED <<poolVars, want, task, got, cacheVars, connected, append_queue,
                   shutdown_requested, wreq, submitted, issued, wire>>

\* worker_thread_main 209: the unique_lock is taken (again, after a wake-up)
WorkerLock ==
    /\ wpc = "wait"
    /\ wpc' = "check"
    /\ last' = NoOp
    /\ UNCHANGED <<poolVars, threadVars, cacheVars, connected, append_queue,
                   shutdown_requested, wreq, submitted, issued, wire>>

\* worker_thread_main 210-222, with the lock held: wait(lock, predicate)
\* blocks when the predicate is false; otherwise the loop is left on
\* shutdown, or the front request popped and the lock released
WorkerCheck ==
    /\ wpc = "check"
    /\ IF append_queue = <<>> /\ ~shutdown_requested
       THEN /\ wpc' = "blocked"
            /\ UNCHANGED <<append_queue, wreq>>
       ELSE IF shutdown_requested
       THEN /\ wpc' = "exited"
            /\ UNCHANGED <<append_queue, wreq>>
       ELSE /\ wreq' = Head(append_queue)
            /\ append_queue' = Tail(append_queue)
            /\ wpc' = "process"
    /\ last' = NoOp
    /\ UNCHANGED <<poolVars, threadVars, cacheVars, connected, shutdown_requested,
                   submitted, issued, wire>>

\* the server stores the next row in the session's record buffer, between
\* two calls of the handler
StoreRow(t, b) ==
    /\ pc[t] = "idle"
    /\ task[t].buffer # <<b>>
    /\ task' = [task EXCEPT ![t].buffer = <<b>>]
    /\ last' = NoOp
    /\ UNCHANGED <<poolVars, pc, want, got, cacheVars, pipeVars, wire>>

\* write_row(buf) with buf the session's record buffer: WalRecord(current_lsn++,
\* reclength, buf) handed to append_wal_record_async
WriteRowOf(t, h) ==
    /\ pc[t] = "idle"
    /\ task[t].buffer # NoData
    /\ hstate[h] = "open"
    /\ ~shutdown_requested
    /\ current_lsn[h] < MaxLsn
    /\ Len(submitted) < MaxSubmitted
    /\ Enqueue(WalAppendRequest(current_timeline[h], current_lsn[h], t))
    /\ current_lsn' = [current_lsn EXCEPT ![h] = @ + 1]
    /\ last' = [NoOp EXCEPT !.op = "append_async", !.result = "ok"]
    /\ UNCHANGED <<poolVars, threadVars, now, cache_mutex, hstate, current_timeline,
                   page_cache, lru_list, network_calls, evicted, unflushed, lost, written,
                   connected, shutdown_requested, wpc, wreq, issued, wire>>

\* after serverless_init_func, no handler opened yet
InitWal ==
    /\ PluginReady({[k \in Kinds |-> min_connections(k)]})
    /\ NoHandlers
    /\ NoPipeline("wait")

WalNext ==
    \/ \E h \in Handles, name \in TableNames : Open(h, name)
    \/ \E h \in Handles : WriteRow(h)
    \/ \E t \in Sessions, h \in Handles : CloseBegin(t, h)
    \/ WorkerTake
    \/ WorkerProcess
    \/ WorkerExit
    \/ RequestShutdown
    \/ DropPending

SpecWal == InitWal /\ [][WalNext]_vars

\* the pipeline while the client lives, with handler 1 open on table "a"
QueueNext ==
    \/ \E t \in Sessions : AsyncPush(t, 1)
    \/ \E t \in Sessions : AsyncNotify(t)
    \/ WorkerLock
    \/ WorkerCheck
    \/ WorkerProcess

SpecQueue == InitCache /\ [][QueueNext]_vars

\* sessions writing rows of one byte through handler 1, each from its own
\* record buffer, which the server overwrites with the next row
RowBytes == {1, 2}

RowNext ==
    \/ \E t \in Sessions, b \in RowBytes : StoreRow(t, b)
    \/ \E t \in Sessions : WriteRowOf(t, 1)
    \/ WorkerTake
    \/ WorkerProcess

SpecRow == InitCache /\ [][RowNext]_vars

\* the worker thread keeps running, every append it makes terminates, and a
\* caller that has pushed goes on to its notify_one
FairSpecQueue ==
    /\ SpecQueue
    /\ WF_vars(WorkerLock) /\ WF_vars(WorkerCheck) /\ WF_vars(WorkerProcess)
    /\ \A t \in Sessions : WF_vars(AsyncNotify(t))

(***************************************************************************)
(* Claims on the connection pool                                           *)
(***************************************************************************)

\* connections created and not destroyed: nothing the pool runs destroys one
\* (is_connection_healthy never rejects a managed client)
LiveConnections(k) == pool[k].created

\* C1: no connection is leased to two callers at the same time, and the
\* available queue never holds the same connection twice
C1_ExclusiveLease ==
    \A k \in Kinds, c \in ConnIds :
        /\ leased[k][c] <= 1
        /\ Count(pool[k].available, c) <= 1

\* C6: after a lessee's release the connection is in the available queue,
\* on every lease cycle of that connection
C6_ReleaseMakesAvailable ==
    (last.op = "return" /\ last.held)
        => last.conn \in Range(pool[last.kind].available)

\* C7: the live connections of a kind never exceed the configured maximum,
\* under acquire-timeout creation, release and the scaling step (runs in which
\* warm_connections ran once, inside initialize)
C7_LiveWithinMax ==
    warms <= 1 => \A k \in Kinds : LiveConnections(k) <= max_connections(k)

\* C8: release of a null pointer or of a pointer the pool never created
\* leaves the available queue, the managed vector and the counters as they
\* were and wakes no waiter
C8_UnknownReleaseNoOp ==
    [][\A k \in Kinds, c \in {NULL, Foreign} :
          Return(k, c) => UNCHANGED <<pool, woken, leased>>]_vars

\* C8 witness: an unknown pointer was released while a caller was waiting
\* and the pool managed a connection
C8_Witness ==
    /\ last.op = "return" /\ last.conn = Foreign
    /\ \E t \in Callers : pc[t] = "waiting" /\ want[t] = last.kind
    /\ pool[last.kind].all_connections # <<>>

\* C9: every caller inside acquire eventually leaves it
C9_AcquireReturns ==
    \A t \in Callers : (pc[t] = "waiting") ~> (pc[t] = "idle")

\* C9 witness: an acquire returned 'unavailable': the queue was empty and
\* the pool at capacity, with connections still leased out
C9_Witness ==
    /\ last.op = "unavailable"
    /\ pool[last.kind].available = <<>>
    /\ Len(pool[last.kind].all_connections) >= max_connections(last.kind)
    /\ \E c \in ConnIds : leased[last.kind][c] > 0
(***************************************************************************)
(* Claims on the page cache                                                *)
(***************************************************************************)

\* C2: the page cache never holds more than MAX_CACHED_PAGES entries
C2_CacheBounded ==
    \A h \in Handles : Cardinality(DOMAIN page_cache[h]) <= MAX_CACHED_PAGES

\* C2 witness: the cache is full after an insertion that had to evict
C2_Witness ==
    /\ last.op = "insert"
    /\ evicted[1].valid
    /\ Cardinality(DOMAIN page_cache[1]) = MAX_CACHED_PAGES
    /\ network_calls[1] > MAX_CACHED_PAGES

\* C3: an evicted entry has the oldest last_access of the entries cached at
\* the eviction
C3_EvictsOldest ==
    \A h \in Handles : evicted[h].valid => evicted[h].last_access = evicted[h].oldest

\* C4: no dirty page is discarded from the cache (evicted, replaced, or deleted
\* with the handler) without a write-back having been started for it
C4_DirtyWrittenBack ==
    \A h \in Handles : lost[h] = {}
(***************************************************************************)
(* Claims on the append pipeline and the WAL positions                     *)
(***************************************************************************)

\* the requests accepted and not yet handed to the network, oldest first
Pending == (IF wpc = "process" THEN <<wreq>> ELSE <<>>) \o append_queue

\* C5: the worker hands requests to the network in the order they were
\* submitted, one at a time: what it has issued is a prefix of the submissions,
\* and while no shutdown is requested nothing in between is skipped
C5_IssuedInSubmissionOrder ==
    /\ Len(issued) <= Len(submitted)
    /\ issued = SubSeq(submitted, 1, Len(issued))
    /\ ~shutdown_requested => issued \o Pending = submitted

\* C5 witness: a third request was issued after an earlier append had failed
\* before its send, with no shutdown
C5_Witness ==
    /\ ~shutdown_requested
    /\ Len(issued) = MaxSubmitted
    /\ Cardinality({i \in DOMAIN wire : wire[i].via = "worker"}) < Len(issued)
    /\ last.op = "append" /\ last.held

\* C10: per timeline, the LSNs arrive at the Log service in non-decreasing order
C10_LsnNonDecreasing ==
    \A i, j \in DOMAIN wire :
        (i < j /\ wire[i].timeline_id = wire[j].timeline_id)
            => wire[i].lsn <= wire[j].lsn

(***************************************************************************)
(* Claims on locking                                                       *)
(***************************************************************************)

\* the caller is inside a remote call or the pool acquire that precedes one:
\* get_*_connection ("waiting"), read_page ("fetch"), append_wal_record ("wb_send")
InRemoteCall(t) == pc[t] \in {"waiting", "fetch", "wb_send"}

\* C11: no thread is inside a remote call, or inside the pool acquire that
\* precedes one, while it holds a handler's cache mutex
C11_NoRemoteCallUnderMutex ==
    \A h \in Handles, t \in Sessions : cache_mutex[h] = t => ~InRemoteCall(t)

(***************************************************************************)
(* Claims on the write path                                                *)
(***************************************************************************)

\* C12: a read of a page that went through the write path, before any
\* eviction of it, is served from the cache with the bytes written: it counts
\* no network call, enters no pool acquire, and the cached bytes it copies out
\* are the written ones
C12_ReadAfterWriteFromCache ==
    [][\A t \in Sessions, h \in Handles, page_id \in PageIds :
          (ReadLookup(t, h, page_id) /\ page_key(page_id) \in DOMAIN written[h])
              => /\ UNCHANGED <<network_calls, pool, pc>>
                 /\ page_key(page_id) \in DOMAIN page_cache[h]
                 /\ page_cache[h][page_key(page_id)].data
                        = written[h][page_key(page_id)]]_vars

(***************************************************************************)
(* Claims on reuse and capacity of the pool                                *)
(***************************************************************************)

\* C13: with no other caller inside the pool or holding a lease, an acquire
\* that follows a release made right after the acquire of that connection
\* returns the same connection from the queue, and creates none
C13_ReleasedIsNext ==
    [][\A t \in Callers :
          ( /\ last.op = "return" /\ last.cycle
            /\ want[t] = last.kind
            /\ \A u \in Threads \ {t} : pc[u] = "idle"
            /\ \A c \in ConnIds : leased[last.kind][c] = 0
            /\ (AcquireTake(t) \/ AcquireTimeout(t)) )
          => (last'.op = "acquire" /\ last'.conn = last.conn)]_vars

\* threads of the full pool that hold a connection, and those whose acquire has returned
Holders == {t \in Threads : got[t][focus] # NULL}
Returned == {t \in Threads : task[t].op # "none" /\ pc[t] = "idle"}
\* no holder has released yet
NoRelease == \A t \in Threads : task[t].op # "released"

\* C14: in a pool with min = max, all warmed, and zero-timeout acquires: until
\* a holder releases, the holders hold distinct connections and are never more
\* than max; once more than max acquires have returned, exactly max of them
\* succeeded and the others got 'unavailable'
C14_FullPoolRace ==
    NoRelease =>
        /\ \A t, u \in Holders : t # u => got[t][focus] # got[u][focus]
        /\ Cardinality(Holders) <= max_connections(focus)
        /\ Returned = Threads => Cardinality(Holders) = max_connections(focus)

\* C14 witness: every thread's acquire has returned, the last one with
\* 'unavailable', and nobody has released
C14_Witness ==
    /\ NoRelease
    /\ Returned = Threads
    /\ last.op = "unavailable"
    /\ Cardinality(Holders) = FullSize
    /\ Cardinality(Threads) > FullSize

C16_OneWriteBackPerDirtyEviction ==
    \A h \in Handles :
        evicted[h].valid =>
            evicted[h].sent = (IF evicted[h].dirty THEN <<evicted[h].data>> ELSE <<>>)

(***************************************************************************)
(* Claims on warm-up                                                       *)
(***************************************************************************)

\* C17: warm_connections on a pool that already holds its minimum of every
\* kind creates nothing and leaves the available queues and the managed
\* vectors as they were
C17_WarmIdempotent ==
    [][(Warm /\ \A k \in Kinds : LiveConnections(k) >= min_connections(k))
          => \A k \in Kinds :
                /\ pool'[k].created = pool[k].created
                /\ pool'[k].available = pool[k].available
                /\ pool'[k].all_connections = pool[k].all_connections]_vars

(***************************************************************************)
(* Claims on the cache key                                                 *)
(***************************************************************************)

\* two timeline ids collide: different ids, equal after the 32-bit left shift
Collide(tl1, tl2) == tl1 # tl2 /\ Shl32(tl1) = Shl32(tl2)

\* C18: distinct PageIds whose timeline ids do not collide after the shift
\* have distinct packed keys, so a lookup that hits finds the entry of the
\* PageId it was made with
C18_KeyInjective ==
    [][\A page_id \in KeyPageIds :
          LET key == page_key(page_id)
          IN  ( /\ ReadLookup(1, 1, page_id)
                /\ key \in DOMAIN page_cache[1]
                /\ ~Collide(page_cache[1][key].page_id.timeline_id,
                            page_id.timeline_id) )
              => /\ page_cache[1][key].page_id = page_id
                 /\ \A other \in KeyPageIds :
                       (other # page_id
                        /\ ~Collide(other.timeline_id, page_id.timeline_id))
                           => page_key(other) # key]_vars

\* C18 witness: the cache holds two pages of one timeline with bits above
\* bit 31 set, under different keys, and one of them has been read again
C18_Witness ==
    \E k1, k2 \in DOMAIN page_cache[1] :
        /\ k1 # k2
        /\ page_cache[1][k1].page_id.timeline_id = page_cache[1][k2].page_id.timeline_id
        /\ page_cache[1][k1].page_id.timeline_id[1] # 0
        /\ page_cache[1][k1].page_id.page_number # page_cache[1][k2].page_id.page_number
        /\ network_calls[1] = 2
        /\ pc[1] = "idle"

(***************************************************************************)
(* Claims on the shutdown of the append pipeline                           *)
(***************************************************************************)

\* C19: once shutdown is requested, no request still in the queue is dequeued
\* or handed to the network; the only request issued after that is the one the
\* worker had already dequeued; and after the join the queue is empty
C19_NoAppendAfterShutdown ==
    [][shutdown_requested =>
          /\ Range(append_queue) \cap (Range(issued') \cup {wreq'}) = {}
          /\ issued' # issued => (wpc = "process" /\ issued' = Append(issued, wreq))
          /\ wpc' = "joined" => append_queue' = <<>>]_vars

\* C19 witness: after the request for shutdown the worker has completed the
\* request it had dequeued, with others still queued
C19_Witness ==
    /\ shutdown_requested
    /\ last.op = "append"
    /\ wpc = "wait"
    /\ append_queue # <<>>

(***************************************************************************)
(* Claims on the connection state of a Log client                          *)
(***************************************************************************)

\* C20: an append that failed in its send or in its receive leaves the client
\* disconnected
C20_FailureDisconnects ==
    (last.op = "append" /\ last.result \in {"send_failed", "recv_failed"})
        => ~connected
(***************************************************************************)
(* Claims on the page fetch                                                *)
(***************************************************************************)

\* C21: read_page succeeds only on a completed exchange with status 200 and a
\* body of exactly the page size; every other exchange, a shorter body
\* included, is an error, and an error leaves the caller's buffer as it was
C21_ReadPageAllOrNothing ==
    [][\A response \in Responses :
          ReadFetchFrom(1, {response}, {StaleImage})
              => /\ (pc'[1] = "insert")
                        <=> ( /\ response.curl_ok
                              /\ response.code = 200
                              /\ Len(response.body) = MARIADB_PAGE_SIZE )
                 /\ pc'[1] # "insert"
                        => (last'.result = "error" /\ last'.buffer = StaleImage)]_vars
(***************************************************************************)
(* Claims on retries of an append                                          *)
(***************************************************************************)

\* the requests of the worker that reached the Log service with identity seq
OnWire(w, seq) == {i \in DOMAIN w : w[i].via = "worker" /\ w[i].seq = seq}

\* C22: one append puts at most one request on the wire; the request the
\* worker has processed, failed or not, is neither queued again nor kept, and
\* it has reached the Log service at most once
C22_NoResend ==
    [][/\ Len(wire') <= Len(wire) + 1
       /\ WorkerProcess =>
            /\ wreq.seq \notin {r.seq : r \in Range(append_queue')} \cup {wreq'.seq}
            /\ Cardinality(OnWire(wire', wreq.seq)) <= 1
            /\ last'.result # "ok" => ~last'.held]_vars

\* C22 witness: the worker's second append was sent and got no answer: it
\* returned failure, and the request is on the wire once and in no queue
C22_Witness ==
    /\ Len(issued) >= 2
    /\ last.op = "append" /\ last.result = "recv_failed" /\ ~last.held
    /\ Cardinality(OnWire(wire, issued[Len(issued)].seq)) = 1
    /\ wpc = "wait"
    /\ issued[Len(issued)].seq \notin {r.seq : r \in Range(append_queue)}
(***************************************************************************)
(* Claims on the queue of the append pipeline                              *)
(***************************************************************************)

\* a caller could make an asynchronous append through handler h now
CanAppend(t, h) ==
    /\ pc[t] = "idle" /\ hstate[h] = "open" /\ ~shutdown_requested
    /\ current_lsn[h] < MaxLsn /\ Len(submitted) < MaxSubmitted

\* C23: while the worker is sending an append queue_mutex is free, so a
\* caller that can append is not kept from queuing its request; and a caller
\* past its push is never kept from returning
C23_AsyncNotDelayedBySend ==
    /\ wpc = "process" =>
          \A t \in Sessions : CanAppend(t, 1) => ENABLED AsyncPush(t, 1)
    /\ \A t \in Sessions : pc[t] = "notify" => ENABLED AsyncNotify(t)

\* C23 witness: an asynchronous append has returned while the worker was
\* sending an earlier one, its request waiting in the queue
C23_Witness ==
    /\ last.op = "append_async"
    /\ wpc = "process"
    /\ append_queue # <<>>
    /\ wire = <<>>

\* C28: with no shutdown and appends that terminate, every request
\* append_wal_record_async accepted is eventually dequeued and handed to the
\* network append, the n-th accepted as the n-th, and none is handed over twice
C28_AcceptedEventuallySent ==
    /\ [](\A i, j \in DOMAIN issued : i # j => issued[i].seq # issued[j].seq)
    /\ \A n \in 1..MaxSubmitted :
          (Len(submitted) >= n) ~> (Len(issued) >= n /\ issued[n] = submitted[n])

\* C28 witness: the worker had blocked on an empty queue, and every request
\* accepted since has been processed, one of them pushed while it was sending
C28_Witness ==
    /\ Len(issued) >= 2
    /\ issued = submitted
    /\ append_queue = <<>>
    /\ wpc = "blocked"
    /\ \A t \in Sessions : pc[t] = "idle"
(***************************************************************************)
(* Claims on the creation of connections by acquire                        *)
(***************************************************************************)

\* C24: an acquire creates a connection only when the queue stayed empty and
\* the live connections of the kind are fewer than its maximum, and then
\* returns the new connection; an acquire that creates none on an empty queue
\* returns 'unavailable'; and an acquire that finds a connection available
\* returns one from the queue and creates none
C24_CreateOnlyBelowMax ==
    [][\A t \in Threads :
          LET k == want[t]
          IN  (AcquireTake(t) \/ AcquireTimeout(t)) =>
                 /\ pool'[k].created # pool[k].created
                       => /\ pool[k].available = <<>>
                          /\ LiveConnections(k) < max_connections(k)
                          /\ last'.op = "acquire_new" /\ last'.conn = pool'[k].created
                 /\ (pool'[k].created = pool[k].created /\ pool[k].available = <<>>)
                       => last'.op = "unavailable"
                 /\ pool[k].available # <<>>
                       => /\ last'.op = "acquire"
                          /\ last'.conn = Head(pool[k].available)
                          /\ pool'[k].created = pool[k].created]_vars
(***************************************************************************)
(* Claims on the frame of a page read                                      *)
(***************************************************************************)

\* C25: a read that finds its page cached returns the cached bytes, sets the
\* entry's last_access to the time of the read, and changes nothing else:
\* not the pool, the leases, the callers, network_calls, the other entries,
\* the LRU list or the wire
C25_HitFrame ==
    [][\A page_id \in PageIds :
          LET key == page_key(page_id)
              t == 1
              h == 1
          IN  (ReadLookup(t, h, page_id) /\ key \in DOMAIN page_cache[h])
                 => /\ last'.op = "hit" /\ last'.result = "ok"
                    /\ last'.buffer = page_cache[h][key].data
                    /\ page_cache'[h][key].last_access = now
                    /\ \A g \in Handles :
                          /\ DOMAIN page_cache'[g] = DOMAIN page_cache[g]
                          /\ \A k \in DOMAIN page_cache[g] :
                                /\ (g # h \/ k # key) => page_cache'[g][k] = page_cache[g][k]
                                /\ page_cache'[g][k].data = page_cache[g][k].data
                                /\ page_cache'[g][k].dirty = page_cache[g][k].dirty
                                /\ page_cache'[g][k].page_id = page_cache[g][k].page_id
                    /\ UNCHANGED <<pool, leased, woken, pc, task, got, network_calls,
                                   lru_list, evicted, wire>>]_vars

\* C25 witness: a read has hit an entry cached at an earlier time, in a full
\* cache, and the entry carries the time of the read
C25_Witness ==
    /\ last.op = "hit"
    /\ last.buffer \in PageImages
    /\ now > 0
    /\ Cardinality(DOMAIN page_cache[1]) = MAX_CACHED_PAGES
    /\ \E k1, k2 \in DOMAIN page_cache[1] :
          page_cache[1][k1].last_access = now /\ page_cache[1][k2].last_access < now

\* a page read of t fails in this step: its acquire returns 'unavailable'
\* (719-721), or read_page returns an error (724, 747)
ReadFails(t) ==
    \/ AcquireTimeout(t) /\ task[t].op = "read" /\ last'.op = "unavailable"
    \/ ReadFetchFrom(t, Responses, {StaleImage}) /\ pc'[t] # "insert"

\* C26: a page read whose fetch fails leaves the cache map and the LRU list
\* of every handler as they were, returns the failure, and holds no lease
\* afterwards: the connection it had taken has been handed back
C26_FailedReadFrame ==
    [][ReadFails(1)
          => /\ UNCHANGED <<page_cache, lru_list, evicted, network_calls>>
             /\ pc'[1] = "idle" /\ task'[1] = NoTask
             /\ last'.op = "unavailable" \/ (last'.op = "read" /\ last'.result = "error")
             /\ got'[1]["ps"] = NULL
             /\ \A c \in ConnIds :
                   leased'["ps"][c] = leased["ps"][c] - (IF got[1]["ps"] = c THEN 1 ELSE 0)]_vars

\* C26 witness: with pages cached, a read took a lease, got an error from
\* read_page, and nothing is leased any more
C26_Witness ==
    /\ last.op = "read" /\ last.result = "error"
    /\ Cardinality(DOMAIN page_cache[1]) = MAX_CACHED_PAGES
    /\ \A c \in ConnIds : leased["ps"][c] = 0
    /\ pool["ps"].cache_hits > MAX_CACHED_PAGES
(***************************************************************************)
(* Claims on an eviction whose write-back fails                            *)
(***************************************************************************)

\* C27: whatever became of the write-back of a dirty victim (no Log
\* connection, or an append that failed), the reader goes on to the eviction,
\* which erases the victim from the cache map and the LRU list and inserts the
\* page read under the mutex it then releases; the read returns success
C27_EvictionSurvivesWriteBack ==
    [][LET t == 1
           h == task[t].h
           victim == task[t].victim
           key == page_key(task[t].page)
       IN  /\ ( /\ task[t].op = "evict"
                /\ WbSend(t) \/ (AcquireTimeout(t) /\ last'.op = "unavailable") )
                  => pc'[t] = "evict"
           /\ EvictFinish(t)
                  => /\ victim # key
                        => /\ victim \notin DOMAIN page_cache'[h]
                           /\ victim \notin Range(lru_list'[h])
                     /\ key \in DOMAIN page_cache'[h]
                     /\ Head(lru_list'[h]) = key
                     /\ Cardinality(DOMAIN page_cache'[h]) <= MAX_CACHED_PAGES
                     /\ cache_mutex'[h] = 0
                     /\ pc'[t] = "idle"
                     /\ last'.op = "insert" /\ last'.result = "ok"]_vars

\* C27 witness: a dirty page has been evicted with nothing of its write-back
\* sent, and the page read is in the cache in its place
C27_Witness ==
    /\ last.op = "insert" /\ last.result = "ok"
    /\ evicted[1].valid /\ evicted[1].dirty /\ evicted[1].sent = <<>>
    /\ Cardinality(DOMAIN page_cache[1]) = MAX_CACHED_PAGES
    /\ cache_mutex[1] = 0
(***************************************************************************)
(* Claims on the health loop                                               *)
(***************************************************************************)

C30_ManagedIsReachable ==
    \A k \in Kinds :
        \A c \in Range(pool[k].all_connections) :
            c \in Range(pool[k].available) \/ leased[k][c] > 0
(***************************************************************************)
(* Claims on the pool's size and counters                                  *)
(***************************************************************************)

\* C31: once initialize has run, the total get_stats reports for a kind (the
\* size of the managed vector) does not fall below the configured minimum
\* once it has reached it
C31_TotalStaysAboveMin ==
    [][\A k \in Kinds :
          (plugin # "none" /\ Len(pool[k].all_connections) >= min_connections(k))
              => Len(pool'[k].all_connections) >= min_connections(k)]_vars

\* C32: a call of get_*_connection adds exactly one to the kind's request
\* counter as it is entered, and the hit counter goes up, by exactly one, in
\* exactly the steps in which a call returns with the head of the available
\* queue; a call that times out (creating a connection or not) leaves it alone
C32_CountersPerCall ==
    [][\A k \in Kinds :
          LET entering == {t \in Threads : pc[t] = "idle" /\ pc'[t] = "waiting" /\ want'[t] = k}
              leaving == {t \in Threads : pc[t] = "waiting" /\ want[t] = k /\ pc'[t] # "waiting"}
              fromQueue == /\ leaving # {}
                           /\ pool[k].available # <<>>
                           /\ pool'[k].available = Tail(pool[k].available)
          IN  /\ pool'[k].requests = pool[k].requests + Cardinality(entering)
              /\ pool'[k].cache_hits = pool[k].cache_hits + (IF fromQueue THEN 1 ELSE 0)]_vars

\* C32 witness: two calls have returned, one with a queued connection and one
\* with a connection it created after its wait timed out
C32_Witness ==
    /\ last.op = "acquire_new"
    /\ pool[last.kind].requests = 2
    /\ pool[last.kind].cache_hits = 1
    /\ \A t \in Callers : pc[t] = "idle"
(***************************************************************************)
(* Claims on shutdown                                                      *)
(***************************************************************************)

\* C33: when shutdown() has returned, the health thread has ended and the
\* available queue and the managed vector of both kinds are empty
C33_ShutdownLeavesNothing ==
    (last.op = "shutdown" /\ plugin = "stopped")
        => /\ hcpc = "off"
           /\ \A k \in Kinds : pool[k].available = <<>> /\ pool[k].all_connections = <<>>

\* C34: when shutdown clears the containers of a kind, no connection object
\* is owned by more than one of the unique_ptrs it destroys
C34_DestroyedOnce ==
    \A k \in Kinds : DrainDue(k) => ~DoublyOwned(pool[k])
(***************************************************************************)
(* Claims on the leases of handler operations                              *)
(***************************************************************************)

\* C35: whenever no handler operation is in progress, no connection is
\* leased: a page read, a write-back and a table create each release what
\* they leased before they return
C35_NoLeaseOutsideOperation ==
    (\A t \in Threads : pc[t] = "idle" /\ task[t].op = "none")
        => \A k \in Kinds, c \in ConnIds : leased[k][c] = 0
(***************************************************************************)
(* Claims on the bytes of an asynchronous append                           *)
(***************************************************************************)

\* C36: what the worker sends for a queued request are the bytes the record
\* had when append_async was called, whatever the caller has done with its
\* row buffer since
C36_SendsBytesOfCall ==
    \A i \in 1..Len(wire) :
        wire[i].via = "worker"
            => wire[i].data = Printed(submitted[wire[i].seq].bytes)
(***************************************************************************)
(* Claims on the statistics                                                *)
(***************************************************************************)

\* C37: the hit rate get_stats and scale_pool_if_needed compute, hits over
\* requests when there were requests, is at most 1: the hit counter does not
\* exceed the request counter
C37_HitRateAtMostOne ==
    \A k \in Kinds : pool[k].requests > 0 => pool[k].cache_hits <= pool[k].requests
(***************************************************************************)
(* Claims on the LRU list                                                  *)
(***************************************************************************)

\* C38: whenever cache_mutex is free, the LRU list holds exactly the keys of
\* the cache map, each of them once
C38_LruMatchesCache ==
    \A h \in Handles :
        cache_mutex[h] = 0
            => /\ Range(lru_list[h]) = DOMAIN page_cache[h]
               /\ \A key \in DOMAIN page_cache[h] : Count(lru_list[h], key) = 1
(***************************************************************************)
(* Claims on the flush at close                                            *)
(***************************************************************************)

\* C39: once close() has returned, a cached page whose write-back succeeded
\* with the bytes it holds is no longer dirty
C39_FlushedIsClean ==
    \A h \in Handles :
        hstate[h] = "closed"
            => \A key \in DOMAIN page_cache[h] \cap DOMAIN written[h] :
                  written[h][key] = page_cache[h][key].data
                      => ~page_cache[h][key].dirty
====
